---- MODULE Spec2Model ----
(***************************************************************************)
(* Model of the bambara_normalizer package: the numeral-word converter     *)
(* (numbers.py) and the normalization pipeline with its contraction        *)
(* engine (normalizer.py, config.py).                                      *)
(*                                                                         *)
(* Text is a sequence of characters; a character is a one-element string.  *)
(* Characters outside ASCII are written with a two-letter name:            *)
(*   "&e" U+025B (open e)      "&E" U+0190      "&o" U+0254 (open o)        *)
(*   "&O" U+0186               "&n" U+0272      "&g" U+014B                *)
(*   "a:g" U+00E0 (a with grave, NFC form)       "r'" U+2019                *)
(***************************************************************************)
EXTENDS Integers, Sequences, FiniteSets, TLC

VARIABLES
    pc,        \* position of the caller in its sequence of calls
    num,       \* the number handed to number_to_bambara, the duration to duration_to_bambara
    phrase,    \* the phrase the converter returned, or the caller wrote
    parsed,    \* what the parser returned (or raised)
    config,    \* BambaraNormalizer.config of the instance
    text,      \* the text handed to normalize
    expanded,  \* the local text of normalize after the contraction stage
    out,       \* what normalize returned
    out2,      \* what the follow-up call returned
    request,   \* the preset and keyword arguments handed to create_normalizer
    built,     \* the configuration the instance was constructed with
    calls,     \* per thread: the call it makes on the instance and where it stands
    stack      \* the call whose recursion is followed frame by frame

vars == <<pc, num, phrase, parsed, config, text, expanded, out, out2, request, built, calls, stack>>

(***************************************************************************)
(* Bounds                                                                  *)
(***************************************************************************)
MaxSmall == 130        \* integers 0..MaxSmall are all converted
MaxGroup == 12         \* largest leading thousand / million group tried
MaxFracLen == 2        \* longest fractional digit string tried
MaxTokens == 3         \* most words in a text handed to normalize
MaxTokensK == 4        \* most words in a text around a k' contraction
MaxPhraseTokens == 3    \* most words in a phrase handed to the numeral parser
MaxTokensCreate == 2    \* most words in a text handed to the convenience function
MaxDuration == 12       \* largest count of hours, of minutes and of seconds tried
MaxTokensApostrophe == 2 \* most words in a text of apostrophe variants
MaxChain == 1000        \* longest chain of k' words handed to the instance
MaxCallerFrames == 1    \* deepest call stack of the caller when it calls the instance
MaxCalls == 2           \* most calls one caller makes on the instance
MaxMultiplier == 999  \* multipliers k written after the magnitude word 'waa'
MaxTokensScan == 4   \* words of a text whose k' pass is followed step by step

(***************************************************************************)
(* String helpers (Python str methods on character sequences)              *)
(***************************************************************************)
SP == " "

IsSpace(c) == c \in {" ", "\t", "\n"}

RECURSIVE LStrip(_)
LStrip(s) == IF s # <<>> /\ IsSpace(Head(s)) THEN LStrip(Tail(s)) ELSE s

RECURSIVE RStrip(_)
RStrip(s) ==
    IF s # <<>> /\ IsSpace(s[Len(s)]) THEN RStrip(SubSeq(s, 1, Len(s) - 1)) ELSE s

Strip(s) == RStrip(LStrip(s))

StartsWith(s, p) == Len(p) <= Len(s) /\ SubSeq(s, 1, Len(p)) = p

\* index of the first occurrence of sub in s at or after position i, 0 if none
Find(s, sub, i) ==
    LET c == {j \in i..(Len(s) - Len(sub) + 1) : SubSeq(s, j, j + Len(sub) - 1) = sub}
    IN  IF c = {} THEN 0 ELSE CHOOSE j \in c : \A k \in c : j <= k

Contains(s, sub) == Find(s, sub, 1) # 0

\* str.split(sep): every piece, empty ones included
RECURSIVE SplitOn(_, _)
SplitOn(s, sep) ==
    LET j == Find(s, sep, 1)
    IN  IF j = 0 THEN <<s>>
        ELSE <<SubSeq(s, 1, j - 1)>> \o SplitOn(SubSeq(s, j + Len(sep), Len(s)), sep)

\* str.split(): whitespace-separated words, no empty ones
RECURSIVE SplitWS(_)
SplitWS(s) ==
    LET t == LStrip(s)
        e == {j \in 1..Len(t) : IsSpace(t[j])}
        k == IF e = {} THEN Len(t) + 1 ELSE CHOOSE j \in e : \A m \in e : j <= m
    IN  IF t = <<>> THEN <<>>
        ELSE <<SubSeq(t, 1, k - 1)>> \o SplitWS(SubSeq(t, k, Len(t)))

\* sep.join(words)
RECURSIVE Join(_, _)
Join(words, sep) ==
    IF words = <<>> THEN <<>>
    ELSE IF Len(words) = 1 THEN words[1]
    ELSE words[1] \o sep \o Join(Tail(words), sep)

\* the concatenation of a sequence of sequences
RECURSIVE Flatten(_)
Flatten(ss) == IF ss = <<>> THEN <<>> ELSE Head(ss) \o Flatten(Tail(ss))

\* str.lower(), character by character: <<upper, lower>>
LowerPairs == <<
    <<"A", "a">>, <<"B", "b">>, <<"C", "c">>, <<"D", "d">>, <<"E", "e">>,
    <<"F", "f">>, <<"G", "g">>, <<"H", "h">>, <<"I", "i">>, <<"J", "j">>,
    <<"K", "k">>, <<"L", "l">>, <<"M", "m">>, <<"N", "n">>, <<"O", "o">>,
    <<"P", "p">>, <<"Q", "q">>, <<"R", "r">>, <<"S", "s">>, <<"T", "t">>,
    <<"U", "u">>, <<"V", "v">>, <<"W", "w">>, <<"X", "x">>, <<"Y", "y">>,
    <<"Z", "z">>, <<"&E", "&e">>, <<"&O", "&o">>, <<"&N", "&n">>, <<"&G", "&g">>,
    <<"A:g", "a:g">>, <<"E:g", "e:g">>, <<"O:g", "o:g">>, <<"E^", "e^">>, <<"O^", "o^">>,
    <<"N~", "n~">>, <<"u0395", "u03B5">>, <<"u0404", "u0454">>, <<"u042D", "u044D">> >>

LowerMap == [c \in {LowerPairs[k][1] : k \in DOMAIN LowerPairs} |->
                LowerPairs[CHOOSE k \in DOMAIN LowerPairs : LowerPairs[k][1] = c][2]]

LowerChar(c) == IF c \in DOMAIN LowerMap THEN LowerMap[c] ELSE c

Lower(s) == [i \in 1..Len(s) |-> LowerChar(s[i])]

Max(a, b) == IF a >= b THEN a ELSE b

(***************************************************************************)
(* numbers.py: vocabulary                                                  *)
(***************************************************************************)
UNITS == <<
    <<"f", "u">>,
    <<"k", "e", "l", "e", "n">>,
    <<"f", "i", "l", "a">>,
    <<"s", "a", "b", "a">>,
    <<"n", "a", "a", "n", "i">>,
    <<"d", "u", "u", "r", "u">>,
    <<"w", "&o", "&o", "r", "&o">>,
    <<"w", "o", "l", "o", "n", "w", "u", "l", "a">>,
    <<"s", "e", "e", "g", "i", "n">>,
    <<"k", "&o", "n", "&o", "n", "t", "&o", "n">> >>

\* TENS[i + 1] is the source's TENS[i]
TENS == <<
    <<>>,
    <<"t", "a", "n">>,
    <<"m", "u", "g", "a", "n">>,
    <<"b", "i", " ", "s", "a", "b", "a">>,
    <<"b", "i", " ", "n", "a", "a", "n", "i">>,
    <<"b", "i", " ", "d", "u", "u", "r", "u">>,
    <<"b", "i", " ", "w", "&o", "&o", "r", "&o">>,
    <<"b", "i", " ", "w", "o", "l", "o", "n", "w", "u", "l", "a">>,
    <<"b", "i", " ", "s", "e", "e", "g", "i", "n">>,
    <<"b", "i", " ", "k", "&o", "n", "&o", "n", "t", "&o", "n">> >>

HUNDRED == <<"k", "&e", "m", "&e">>
THOUSAND == <<"w", "a", "a">>
MILLION == <<"m", "i", "l", "i", "y", "&o", "n">>
DECIMAL_SEP == <<"t", "o", "m", "i">>
CONNECTOR == <<"n", "i">>
NEGATIVE == <<"k", "&o", "s", "&o", "n">>
BI == <<"b", "i">>

Unit(d) == UNITS[d + 1]
Tens(i) == TENS[i + 1]

(***************************************************************************)
(* numbers.py: number -> words                                             *)
(***************************************************************************)
\* a converter that joins every hundred group to its remainder, zero included
RECURSIVE _int_to_bambara_joined(_)
_int_to_bambara_joined(n) ==
    IF n < 0 THEN NEGATIVE \o <<SP>> \o _int_to_bambara_joined(-n)
    ELSE IF n < 10 THEN Unit(n)
    ELSE IF n < 100 THEN
        IF n % 10 = 0 THEN Tens(n \div 10)
        ELSE Tens(n \div 10) \o <<SP>> \o CONNECTOR \o <<SP>> \o Unit(n % 10)
    ELSE IF n < 1000 THEN
        (IF n \div 100 = 1 THEN HUNDRED ELSE HUNDRED \o <<SP>> \o Unit(n \div 100))
            \o <<SP>> \o CONNECTOR \o <<SP>> \o _int_to_bambara_joined(n % 100)
    ELSE IF n < 1000000 THEN
        THOUSAND \o <<SP>> \o _int_to_bambara_joined(n \div 1000)
            \o (IF n % 1000 = 0 THEN <<>>
                ELSE <<SP>> \o CONNECTOR \o <<SP>> \o _int_to_bambara_joined(n % 1000))
    ELSE
        MILLION \o <<SP>> \o _int_to_bambara_joined(n \div 1000000)
            \o (IF n % 1000000 = 0 THEN <<>>
                ELSE <<SP>> \o CONNECTOR \o <<SP>> \o _int_to_bambara_joined(n % 1000000))

RECURSIVE _int_to_bambara(_)
_int_to_bambara(n) ==
    IF n < 0 THEN NEGATIVE \o <<SP>> \o _int_to_bambara(-n)
    ELSE IF n = 0 THEN Unit(0)
    ELSE IF n < 10 THEN Unit(n)
    ELSE IF n < 20 THEN
        IF n % 10 = 0 THEN Tens(1)
        ELSE Tens(1) \o <<SP>> \o CONNECTOR \o <<SP>> \o Unit(n % 10)
    ELSE IF n < 100 THEN
        IF n % 10 = 0 THEN Tens(n \div 10)
        ELSE Tens(n \div 10) \o <<SP>> \o CONNECTOR \o <<SP>> \o Unit(n % 10)
    ELSE IF n < 1000 THEN
        LET prefix == IF n \div 100 = 1 THEN HUNDRED
                      ELSE HUNDRED \o <<SP>> \o Unit(n \div 100)
        IN  IF n % 100 = 0 THEN prefix
            ELSE prefix \o <<SP>> \o CONNECTOR \o <<SP>> \o _int_to_bambara(n % 100)
    ELSE IF n < 1000000 THEN
        LET prefix == THOUSAND \o <<SP>> \o _int_to_bambara(n \div 1000)
        IN  IF n % 1000 = 0 THEN prefix
            ELSE prefix \o <<SP>> \o CONNECTOR \o <<SP>> \o _int_to_bambara(n % 1000)
    ELSE
        \* n < 1_000_000_000; larger values are outside the inputs modelled
        LET prefix == MILLION \o <<SP>> \o _int_to_bambara(n \div 1000000)
        IN  IF n % 1000000 = 0 THEN prefix
            ELSE prefix \o <<SP>> \o CONNECTOR \o <<SP>> \o _int_to_bambara(n % 1000000)

\* " ".join(UNITS[int(d)] for d in digits), digits a sequence of 0..9
_digits_to_bambara(digits) ==
    Join([i \in 1..Len(digits) |-> Unit(digits[i])], <<SP>>)

(***************************************************************************)
(* Numbers as the caller passes them: a Python int, or a Python float      *)
(* given by its sign, integer part and fractional digits (the shortest     *)
(* repr: no trailing zero except a lone 0).                                *)
(***************************************************************************)
IntNum(v) == [kind |-> "int", neg |-> v < 0, ip |-> IF v < 0 THEN -v ELSE v, frac |-> <<>>]
FloatNum(neg, ip, frac) == [kind |-> "float", neg |-> neg, ip |-> ip, frac |-> frac]

DIGITS == <<"0", "1", "2", "3", "4", "5", "6", "7", "8", "9">>
DOT == "."
MINUS == "-"

DigitChar(d) == DIGITS[d + 1]
DigitVal(c) == (CHOOSE i \in 1..10 : DIGITS[i] = c) - 1
IsDigit(c) == \E i \in 1..10 : DIGITS[i] = c

\* str(n) of a non-negative int
RECURSIVE NatStr(_)
NatStr(n) == IF n < 10 THEN <<DigitChar(n)>> ELSE NatStr(n \div 10) \o <<DigitChar(n % 10)>>

\* int(s) of an optionally signed digit string
RECURSIVE NatOfStr(_)
NatOfStr(s) == IF s = <<>> THEN 0 ELSE 10 * NatOfStr(SubSeq(s, 1, Len(s) - 1)) + DigitVal(s[Len(s)])

IntOfStr(s) == IF s # <<>> /\ Head(s) = MINUS THEN -NatOfStr(Tail(s)) ELSE NatOfStr(s)

\* str(n) of a float in the range where repr uses positional notation
FloatStr(x) ==
    (IF x.neg THEN <<MINUS>> ELSE <<>>) \o NatStr(x.ip) \o <<DOT>>
        \o [i \in 1..Len(x.frac) |-> DigitChar(x.frac[i])]

_float_to_bambara(x) ==
    LET str_n == FloatStr(x)
        halves == SplitOn(str_n, <<DOT>>)
        int_part == halves[1]
        dec_part == halves[2]
        int_word == IF int_part # <<>> THEN _int_to_bambara(IntOfStr(int_part)) ELSE Unit(0)
        dec_word == _digits_to_bambara([i \in 1..Len(dec_part) |-> DigitVal(dec_part[i])])
    IN  int_word \o <<SP>> \o DECIMAL_SEP \o <<SP>> \o dec_word

number_to_bambara(x) ==
    IF x.kind = "float" THEN _float_to_bambara(x)
    ELSE _int_to_bambara(IF x.neg THEN -x.ip ELSE x.ip)

(***************************************************************************)
(* numbers.py: words -> number                                             *)
(***************************************************************************)
\* dicts are sequences of <<key, value>> in insertion order
InDict(d, key) == \E i \in DOMAIN d : d[i][1] = key
DictGet(d, key) == d[CHOOSE i \in DOMAIN d : d[i][1] = key][2]

UNIT_VALUES ==
    [i \in 1..10 |-> <<UNITS[i], i - 1>>] \o <<
    << <<"k", "e", "l", "e", "n", "n">>, 1 >>,
    << <<"s", "e", "g", "i", "n">>, 8 >>,
    << <<"k", "&o", "n", "&o", "t", "&o", "n">>, 9 >> >>

TENS_VALUES == <<
    << <<"t", "a", "n">>, 10 >>,
    << <<"m", "u", "g", "a", "n">>, 20 >>,
    << <<"b", "i", " ", "s", "a", "b", "a">>, 30 >>,
    << <<"b", "i", " ", "n", "a", "a", "n", "i">>, 40 >>,
    << <<"b", "i", " ", "d", "u", "u", "r", "u">>, 50 >>,
    << <<"b", "i", " ", "w", "&o", "&o", "r", "&o">>, 60 >>,
    << <<"b", "i", " ", "w", "o", "l", "o", "n", "w", "u", "l", "a">>, 70 >>,
    << <<"b", "i", " ", "w", "o", "l", "o", "n", "f", "i", "l", "a">>, 70 >>,
    << <<"b", "i", " ", "s", "e", "e", "g", "i", "n">>, 80 >>,
    << <<"b", "i", " ", "s", "e", "g", "i", "n">>, 80 >>,
    << <<"b", "i", " ", "k", "&o", "n", "&o", "n", "t", "&o", "n">>, 90 >>,
    << <<"b", "i", " ", "k", "&o", "n", "&o", "t", "&o", "n">>, 90 >> >>

MULTIPLIER_VALUES == <<
    << <<"k", "&e", "m", "&e">>, 100 >>,
    << <<"k", "e", "m", "e">>, 100 >>,
    << <<"w", "a", "a">>, 1000 >>,
    << <<"w", "a">>, 1000 >>,
    << <<"m", "i", "l", "y", "&o", "n">>, 1000000 >>,
    << <<"m", "i", "l", "y", "o", "n">>, 1000000 >> >>

NUMBER_TOKENS ==
    {UNITS[i] : i \in DOMAIN UNITS}
        \cup {UNIT_VALUES[i][1] : i \in DOMAIN UNIT_VALUES}
        \cup {<<"t", "a", "n">>, <<"m", "u", "g", "a", "n">>, BI}
        \cup {MULTIPLIER_VALUES[i][1] : i \in DOMAIN MULTIPLIER_VALUES}
        \cup {CONNECTOR, DECIMAL_SEP}

\* a returned int, or the ValueError raised with the text it names
Ok(v) == [err |-> FALSE, val |-> v, msg |-> <<>>]
Raise(m) == [err |-> TRUE, val |-> 0, msg |-> m]

RECURSIVE _parse_bambara_int(_)
RECURSIVE TensLoop(_, _)
RECURSIVE PartsLoop(_, _)

\* value of one connective-separated part (body of the loop over parts)
PartValue(part) ==
    LET tokens == SplitWS(part)
        rest == Join(Tail(tokens), <<SP>>)
        part_joined == Join(tokens, <<SP>>)
        WithSub(multiplier) ==
            IF Len(tokens) > 1
            THEN LET sub == _parse_bambara_int(rest)
                 IN  IF sub.err THEN sub ELSE Ok(multiplier * Max(sub.val, 1))
            ELSE Ok(multiplier)
    IN  IF tokens = <<>> THEN Ok(0)
        ELSE IF tokens[1] = BI /\ Len(tokens) > 1 /\ InDict(UNIT_VALUES, rest)
        THEN Ok(DictGet(UNIT_VALUES, rest) * 10)
        ELSE IF InDict(MULTIPLIER_VALUES, tokens[1])
        THEN WithSub(DictGet(MULTIPLIER_VALUES, tokens[1]))
        ELSE IF tokens[1] = <<"w", "a", "a">>
        THEN WithSub(1000)
        ELSE IF tokens[1] = <<"m", "i", "l", "y", "&o", "n">> \/ tokens[1] = <<"m", "i", "l", "y", "o", "n">>
        THEN WithSub(1000000)
        ELSE IF InDict(TENS_VALUES, part_joined) THEN Ok(DictGet(TENS_VALUES, part_joined))
        ELSE IF InDict(UNIT_VALUES, part_joined) THEN Ok(DictGet(UNIT_VALUES, part_joined))
        ELSE IF InDict(UNIT_VALUES, tokens[1]) THEN Ok(DictGet(UNIT_VALUES, tokens[1]))
        ELSE Raise(part_joined)

\* the loop summing the parts; the first error aborts it
PartsLoop(parts, total) ==
    IF parts = <<>> THEN Ok(total)
    ELSE LET v == PartValue(Head(parts))
         IN  IF v.err THEN v ELSE PartsLoop(Tail(parts), total + v.val)

\* the loop over TENS_VALUES.items(); done = FALSE when it falls through
TensLoop(phr, i) ==
    IF i > Len(TENS_VALUES) THEN [done |-> FALSE, res |-> Ok(0)]
    ELSE LET tens_phrase == TENS_VALUES[i][1]
             value == TENS_VALUES[i][2]
             remainder == Strip(SubSeq(phr, Len(tens_phrase) + 1, Len(phr)))
         IN  IF phr = tens_phrase THEN [done |-> TRUE, res |-> Ok(value)]
             ELSE IF StartsWith(phr, tens_phrase \o <<SP>>) /\ StartsWith(remainder, CONNECTOR)
             THEN LET r == _parse_bambara_int(
                               Strip(SubSeq(remainder, Len(CONNECTOR) + 1, Len(remainder))))
                  IN  [done |-> TRUE, res |-> IF r.err THEN r ELSE Ok(value + r.val)]
             ELSE TensLoop(phr, i + 1)

ConnectorParts(phr) ==
    LET raw == SplitOn(phr, <<SP>> \o CONNECTOR \o <<SP>>)
    IN  SelectSeq([i \in 1..Len(raw) |-> Strip(raw[i])], LAMBDA p : p # <<>>)

_parse_bambara_int(phrase0) ==
    LET phr == Strip(phrase0)
    IN  IF phr = <<>> THEN Ok(0)
        ELSE IF InDict(UNIT_VALUES, phr) THEN Ok(DictGet(UNIT_VALUES, phr))
        ELSE LET t == TensLoop(phr, 1)
             IN  IF t.done THEN t.res ELSE PartsLoop(ConnectorParts(phr), 0)

\* the digit string the fractional phrase spells ("0" when it spells none)
_parse_decimal_digits(phr) ==
    LET raw == SplitOn(phr, CONNECTOR)
        parts == SelectSeq([i \in 1..Len(raw) |-> Strip(raw[i])], LAMBDA p : p # <<>>)
        tokens == Flatten([i \in 1..Len(parts) |-> SplitWS(parts[i])])
        known == SelectSeq(tokens, LAMBDA t : InDict(UNIT_VALUES, t))
        digits == [i \in 1..Len(known) |-> DictGet(UNIT_VALUES, known[i])]
    IN  IF digits # <<>> THEN digits ELSE <<0>>

\* float("<ip>.<digits>") as sign, integer part and shortest fractional digits
RECURSIVE DropTrailingZeros(_)
DropTrailingZeros(ds) ==
    IF Len(ds) > 1 /\ ds[Len(ds)] = 0 THEN DropTrailingZeros(SubSeq(ds, 1, Len(ds) - 1)) ELSE ds

bambara_to_number(phrase0) ==
    LET phr == Strip(Lower(phrase0))
        parts == SplitOn(phr, DECIMAL_SEP)
        int_part == Strip(parts[1])
        dec_part == Strip(parts[2])
        int_val == IF int_part # <<>> THEN _parse_bambara_int(int_part) ELSE Ok(0)
        dec_val == IF dec_part # <<>> THEN _parse_decimal_digits(dec_part) ELSE <<0>>
        whole == _parse_bambara_int(phr)
    IN  IF Contains(phr, DECIMAL_SEP) /\ Len(parts) = 2
        THEN IF int_val.err THEN [kind |-> "error", msg |-> int_val.msg]
             ELSE [kind |-> "float", neg |-> FALSE, ip |-> int_val.val,
                   frac |-> DropTrailingZeros(dec_val)]
        ELSE IF whole.err THEN [kind |-> "error", msg |-> whole.msg]
             ELSE [kind |-> "int", neg |-> FALSE, ip |-> whole.val, frac |-> <<>>]

(***************************************************************************)
(* numbers.py: numerals in running text.  The strings number_to_bambara    *)
(* takes here are the matches of \d[\d.,]*: digits, points and commas.     *)
(***************************************************************************)
COMMA == ","

CountChar(s, c) == Cardinality({i \in DOMAIN s : s[i] = c})
Without(s, cs) == SelectSeq(s, LAMBDA ch : ch \notin cs)

\* float(n) of digits and points, the first character a digit
ParseFloat(n) ==
    LET halves == SplitOn(n, <<DOT>>)
        dec == [i \in 1..Len(halves[2]) |-> DigitVal(halves[2][i])]
    IN  IF CountChar(n, DOT) # 1 THEN Raise(n)
        ELSE Ok(FloatNum(FALSE, NatOfStr(halves[1]),
                         IF dec = <<>> THEN <<0>> ELSE DropTrailingZeros(dec)))

\* the separators of the string form, as the isinstance(n, str) branch reads them
CleanSeparators(n) ==
    IF CountChar(n, DOT) > 1 \/ (CountChar(n, COMMA) > 0 /\ CountChar(n, DOT) = 0)
    THEN Without(n, {DOT, COMMA})
    ELSE IF CountChar(n, COMMA) > 0 THEN [i \in DOMAIN n |-> IF n[i] = COMMA THEN DOT ELSE n[i]]
    ELSE n

FloatWords(f) == IF f.err THEN f ELSE Ok(_float_to_bambara(f.val))

\* number_to_bambara on a str: the phrase, or the ValueError of float()
number_to_bambara_str(n) ==
    IF Contains(CleanSeparators(Strip(n)), <<DOT>>)
    THEN FloatWords(ParseFloat(CleanSeparators(Strip(n))))
    ELSE Ok(_int_to_bambara(NatOfStr(CleanSeparators(Strip(n)))))

WordsOrSame(r, num_str) == IF r.err THEN num_str ELSE r.val

replace_number(num_str) == WordsOrSame(number_to_bambara_str(num_str), num_str)

\* the length of the match of [\d.,]* at the start of s
RECURSIVE NumeralLen(_)
NumeralLen(s) ==
    IF s = <<>> THEN 0
    ELSE IF IsDigit(Head(s)) \/ Head(s) = DOT \/ Head(s) = COMMA THEN 1 + NumeralLen(Tail(s))
    ELSE 0

\* re.sub(r"\d[\d.,]*", replace_number, text)
RECURSIVE normalize_numbers_in_text(_)
ReplaceAt(t, n) ==
    replace_number(SubSeq(t, 1, n)) \o normalize_numbers_in_text(SubSeq(t, n + 1, Len(t)))

normalize_numbers_in_text(t) ==
    IF t = <<>> THEN <<>>
    ELSE IF IsDigit(Head(t)) THEN ReplaceAt(t, NumeralLen(t))
    ELSE <<Head(t)>> \o normalize_numbers_in_text(Tail(t))

(***************************************************************************)
(* Characters (unicodedata and str methods on the characters the tables    *)
(* and the inputs use).  Names of the non-ASCII ones:                      *)
(*   "e:g" "E:g" "o:g" "O:g" "a:g" "A:g"  letters with grave (U+00E8, ...)       *)
(*   "e^" "E^" "o^" "O^"            letters with circumflex                *)
(*   "n~" "N~"                      n with tilde                           *)
(*   "u0300" "u0301" "u030C" "u0302" "u0304" "u0303"  combining marks      *)
(*   "u03B5" "u0395" Greek epsilon; "u0454" "u0404" "u044D" "u042D"        *)
(*   Cyrillic ie / e; "r'" U+2019, "u0060" ... the apostrophe variants     *)
(***************************************************************************)
APOSTROPHE == "'"

APOSTROPHE_VARIANTS ==
    {"'", "r'", "u02BC", "u2018", "u0060", "u00B4", "u2032", "uFF07", "u02B9", "u02BB"}

\* unicodedata.category(c) in PUNCTUATION_CATEGORIES
PUNCTUATION_CATEGORIES ==
    {"'", "r'", "u2018", "u2032", "uFF07",
     "(", ")", ",", ".", "!", "?", "-", ":", ";", "\"", "[", "]", "_"}

\* characters the regex class \s and str.split() treat as whitespace
WHITESPACE == {" ", "\t", "\n"}

\* characters outside the regex class \w
NonWordChars ==
    (PUNCTUATION_CATEGORIES \ {"_"}) \cup WHITESPACE
        \cup {"u0060", "u00B4", "u0300", "u0301", "u030C", "u0302", "u0304", "u0303"}

IsWordChar(c) == c \notin NonWordChars

TONE_DIACRITICS == {"u0300", "u0301", "u030C", "u0302", "u0304"}

\* combining marks (category Mn)
CombiningMarks == TONE_DIACRITICS \cup {"u0303"}

\* canonical decompositions: <<composed, base, mark>>
Decompositions == <<
    <<"a:g", "a", "u0300">>, <<"A:g", "A", "u0300">>,
    <<"e:g", "e", "u0300">>, <<"E:g", "E", "u0300">>,
    <<"o:g", "o", "u0300">>, <<"O:g", "O", "u0300">>,
    <<"e^", "e", "u0302">>, <<"E^", "E", "u0302">>,
    <<"o^", "o", "u0302">>, <<"O^", "O", "u0302">>,
    <<"n~", "n", "u0303">>, <<"N~", "N", "u0303">> >>

\* unicodedata.normalize('NFD', s)
NFD(s) ==
    Flatten([i \in 1..Len(s) |->
        IF \E k \in DOMAIN Decompositions : Decompositions[k][1] = s[i]
        THEN LET d == Decompositions[CHOOSE k \in DOMAIN Decompositions :
                                         Decompositions[k][1] = s[i]]
             IN  <<d[2], d[3]>>
        ELSE <<s[i]>>])

\* unicodedata.normalize('NFC', s)
RECURSIVE NFC(_)
NFC(s) ==
    IF Len(s) < 2 THEN s
    ELSE IF \E k \in DOMAIN Decompositions :
                Decompositions[k][2] = s[1] /\ Decompositions[k][3] = s[2]
    THEN <<Decompositions[CHOOSE k \in DOMAIN Decompositions :
                Decompositions[k][2] = s[1] /\ Decompositions[k][3] = s[2]][1]>>
            \o NFC(SubSeq(s, 3, Len(s)))
    ELSE <<s[1]>> \o NFC(Tail(s))

\* the two strings match under re.IGNORECASE
EqualCI(a, b) == Lower(a) = Lower(b)

\* str.replace(old, new): left to right, non-overlapping
RECURSIVE Replace(_, _, _)
Replace(s, old, new) ==
    LET j == Find(s, old, 1)
    IN  IF j = 0 THEN s
        ELSE SubSeq(s, 1, j - 1) \o new \o Replace(SubSeq(s, j + Len(old), Len(s)), old, new)

\* re.compile(re.escape(old), re.IGNORECASE).sub(new, s), from position i on
RECURSIVE SubFrom(_, _, _, _)
SubFrom(s, old, new, i) ==
    LET j == Find(Lower(s), Lower(old), i)
    IN  IF j = 0 THEN SubSeq(s, i, Len(s))
        ELSE SubSeq(s, i, j - 1) \o new \o SubFrom(s, old, new, j + Len(old))

SubCI(s, old, new) == SubFrom(s, old, new, 1)

\* the replacements of a table applied one after the other, in table order
\* (the test on Len(r) makes each result a value before the next pass reads it)
RECURSIVE ReplaceEach(_, _, _)
ReplaceEach(s, table, k) ==
    IF k > Len(table) THEN s
    ELSE LET r == Replace(s, table[k][1], table[k][2])
         IN  IF Len(r) >= 0 THEN ReplaceEach(r, table, k + 1) ELSE r

RECURSIVE SubEachCI(_, _, _)
SubEachCI(s, table, k) ==
    IF k > Len(table) THEN s
    ELSE LET r == SubCI(s, table[k][1], table[k][2])
         IN  IF Len(r) >= 0 THEN SubEachCI(r, table, k + 1) ELSE r

(***************************************************************************)
(* normalizer.py: tables                                                   *)
(***************************************************************************)
KE_POSTPOSITIONS == {
    <<"l", "a">>, <<"y", "e">>, <<"f", "&e">>, <<"k", "&o", "n", "&o">>,
    <<"k", "&o">>, <<"k", "&o", "r", "&o">>, <<"d", "a">>, <<"d", "a", "a">>,
    <<"k", "u", "n">>, <<"&n", "&e">>, <<"&n", "&e", "&e">>, <<"&n", "&e", "f", "&e">>,
    <<"b", "o", "l", "o">>, <<"s", "&e", "m", "&e">>, <<"c", "&e">>, <<"c", "&e", "m", "a">>,
    <<"k", "&o", "f", "&e">>, <<"k", "o", "s", "&o", "n">>, <<"k", "a", "m", "a">> }

REPORTED_SPEECH_MARKERS == {
    <<"k", "o">>, <<"k", "a">>, <<"k", "a", "n", "a">>, <<"t", "&e">>,
    <<"t", "e">>, <<"b", "&e">>, <<"b", "e">>, <<"b", "&e", "n", "a">>,
    <<"b", "e", "n", "a">>, <<"t", "&e", "n", "a">>, <<"t", "e", "n", "a">>, <<"t", "u", "n">>,
    <<"m", "a", "n", "a">> }

CLAUSE_MARKERS == {
    <<"k", "a">>, <<"k", "a", "n", "a">>, <<"t", "&e">>, <<"t", "e">>,
    <<"b", "&e">>, <<"b", "e">>, <<"b", "&e", "n", "a">>, <<"b", "e", "n", "a">>,
    <<"t", "&e", "n", "a">>, <<"t", "e", "n", "a">>, <<"t", "u", "n">>, <<"m", "a", "n", "a">>,
    <<"y", "&e", "r", "&e">>, <<"d", "e">>, <<"d", "&e">> }

\* as SIMPLE_CONTRACTIONS, s' given the form si
SIMPLE_CONTRACTIONS_si == <<
    << <<"b", "'">>, <<"b", "&e", " ">> >>,
    << <<"t", "'">>, <<"t", "&e", " ">> >>,
    << <<"y", "'">>, <<"y", "e", " ">> >>,
    << <<"m", "'">>, <<"m", "a", " ">> >>,
    << <<"s", "'">>, <<"s", "i", " ">> >> >>

SIMPLE_CONTRACTIONS == <<
    << <<"b", "'">>, <<"b", "&e", " ">> >>,
    << <<"t", "'">>, <<"t", "&e", " ">> >>,
    << <<"y", "'">>, <<"y", "e", " ">> >>,
    << <<"m", "'">>, <<"m", "a", " ">> >>,
    << <<"s", "'">>, <<"s", "a", " ">> >> >>

EXTENDED_CONTRACTIONS == <<
    << <<"b", "'", "a">>, <<"b", "&e", " ", "a">> >>,
    << <<"t", "'", "a">>, <<"t", "&e", " ", "a">> >>,
    << <<"y", "'", "a">>, <<"y", "e", " ", "a">> >>,
    << <<"b", "'", "i">>, <<"b", "&e", " ", "i">> >>,
    << <<"t", "'", "i">>, <<"t", "&e", " ", "i">> >>,
    << <<"y", "'", "i">>, <<"y", "e", " ", "i">> >>,
    << <<"b", "'", "o">>, <<"b", "&e", " ", "o">> >>,
    << <<"t", "'", "o">>, <<"t", "&e", " ", "o">> >>,
    << <<"y", "'", "o">>, <<"y", "e", " ", "o">> >>,
    << <<"y", "'", "u">>, <<"y", "e", " ", "u">> >>,
    << <<"b", "'", "u">>, <<"b", "&e", " ", "u">> >>,
    << <<"t", "'", "u">>, <<"t", "&e", " ", "u">> >> >>

CONTRACTION_EXPANSIONS == <<
    << <<"b", "'">>, <<"b", "&e">> >>,
    << <<"t", "'">>, <<"t", "&e">> >>,
    << <<"y", "'">>, <<"y", "e">> >>,
    << <<"m", "'">>, <<"m", "a">> >>,
    << <<"s", "'">>, <<"s", "a">> >> >>

LEGACY_DIGRAPHS == <<
    << <<"n", "y">>, <<"&n">> >>,
    << <<"N", "y">>, <<"&N">> >>,
    << <<"N", "Y">>, <<"&N">> >>,
    << <<"n", "g">>, <<"&g">> >>,
    << <<"N", "g">>, <<"&G">> >>,
    << <<"N", "G">>, <<"&G">> >> >>

LEGACY_ORTHOGRAPHY == <<
    << <<"e:g">>, <<"&e">> >>, << <<"E:g">>, <<"&E">> >>,
    << <<"o:g">>, <<"&o">> >>, << <<"O:g">>, <<"&O">> >>,
    << <<"e^">>, <<"&e">> >>, << <<"E^">>, <<"&E">> >>,
    << <<"o^">>, <<"&o">> >>, << <<"O^">>, <<"&O">> >>,
    << <<"u03B5">>, <<"&e">> >>, << <<"u044D">>, <<"&e">> >> >>

SENEGALESE_VARIANTS == <<
    << <<"n~">>, <<"&n">> >>, << <<"N~">>, <<"&N">> >> >>

\* the vowels of the class [aeiou<open e><open o>] under re.IGNORECASE
ContractionVowels ==
    {"a", "e", "i", "o", "u", "&e", "&o", "A", "E", "I", "O", "U", "&E", "&O"}

(***************************************************************************)
(* normalizer.py: the passes other than the contraction pass               *)
(***************************************************************************)
_normalize_apostrophes(s) ==
    [i \in 1..Len(s) |-> IF s[i] \in APOSTROPHE_VARIANTS THEN APOSTROPHE ELSE s[i]]

_strip_tones_and_punct(word) ==
    LET nfd == NFD(word)
        toneless == NFC(SelectSeq(nfd, LAMBDA c : c \notin TONE_DIACRITICS))
    IN  SelectSeq(toneless, LAMBDA c : c \notin PUNCTUATION_CATEGORIES)

_normalize_legacy_orthography(s) ==
    ReplaceEach(ReplaceEach(ReplaceEach(s, LEGACY_DIGRAPHS, 1), LEGACY_ORTHOGRAPHY, 1),
                SENEGALESE_VARIANTS, 1)

_normalize_special_chars(s) ==
    [i \in 1..Len(s) |->
        IF s[i] \in {"u03B5", "u0404", "u0454"} THEN "&e"
        ELSE IF s[i] \in {"u0395", "u042D", "u044D"} THEN "&E"
        ELSE s[i]]

_lowercase(s) == Lower(s)

_remove_tone_marks(s) ==
    NFC(SelectSeq(NFD(s), LAMBDA c : c \notin TONE_DIACRITICS))

_remove_non_tone_diacritics(s) ==
    NFC(SelectSeq(NFD(s), LAMBDA c : c \notin CombiningMarks \/ c \in TONE_DIACRITICS))

\* as _remove_punctuation, the apostrophes not kept out of the pattern
_remove_punctuation_all(s) ==
    SelectSeq(s, LAMBDA c : c \notin PUNCTUATION_CATEGORIES)

\* the pattern of _build_punctuation_pattern: punctuation that is no apostrophe
_remove_punctuation(s) ==
    SelectSeq(s, LAMBDA c : ~(c \in PUNCTUATION_CATEGORIES /\ c \notin APOSTROPHE_VARIANTS))

\* (.)\1{2,} -> \1\1 : a run of three or more equal characters keeps two
RECURSIVE _strip_repetitions(_)
_strip_repetitions(s) ==
    IF Len(s) < 3 THEN s
    ELSE IF s[1] = s[2] /\ s[2] = s[3] /\ s[1] # "\n"
    THEN LET run == CHOOSE n \in 3..Len(s) :
                        /\ \A k \in 1..n : s[k] = s[1]
                        /\ (n = Len(s) \/ s[n + 1] # s[1])
         IN  <<s[1], s[1]>> \o _strip_repetitions(SubSeq(s, run + 1, Len(s)))
    ELSE <<s[1]>> \o _strip_repetitions(Tail(s))

\* \s+ -> ' ', then strip()
RECURSIVE CollapseWS(_)
CollapseWS(s) ==
    IF s = <<>> THEN <<>>
    ELSE IF s[1] \in WHITESPACE
    THEN IF Len(s) > 1 /\ s[2] \in WHITESPACE THEN CollapseWS(Tail(s))
         ELSE <<SP>> \o CollapseWS(Tail(s))
    ELSE <<s[1]>> \o CollapseWS(Tail(s))

_normalize_whitespace(s) == Strip(CollapseWS(s))

COMPOUND_UNITS == <<
    <<"s", "a", "b", "a">>, <<"n", "a", "a", "n", "i">>, <<"d", "u", "u", "r", "u">>,
    <<"w", "&o", "&o", "r", "&o">>, <<"w", "o", "l", "o", "n", "w", "u", "l", "a">>,
    <<"s", "e", "g", "i", "n">>, <<"k", "&o", "n", "&o", "n", "t", "&o", "n">> >>

\* \b holds between positions i - 1 and i of s
WordBoundary(s, i) ==
    LET before == i > 1 /\ IsWordChar(s[i - 1])
        after == i <= Len(s) /\ IsWordChar(s[i])
    IN  before # after

\* first position at or after i that holds no whitespace (Len(s) + 1 if none)
SkipWS(s, i) ==
    LET c == {j \in i..Len(s) : s[j] \notin WHITESPACE}
    IN  IF c = {} THEN Len(s) + 1 ELSE CHOOSE j \in c : \A k \in c : j <= k

MatchesAt(s, i, w) == i + Len(w) - 1 <= Len(s) /\ EqualCI(SubSeq(s, i, i + Len(w) - 1), w)

\* \b(bi)\s+(saba|naani|...)\b -> \1\2, under re.IGNORECASE
RECURSIVE JoinBi(_, _)
JoinBi(s, i) ==
    IF i > Len(s) THEN <<>>
    ELSE LET e == SkipWS(s, i + 2)
             alts == {k \in DOMAIN COMPOUND_UNITS :
                         /\ MatchesAt(s, e, COMPOUND_UNITS[k])
                         /\ WordBoundary(s, e + Len(COMPOUND_UNITS[k]))}
             k == CHOOSE a \in alts : \A b \in alts : a <= b
         IN  IF /\ WordBoundary(s, i)
                /\ MatchesAt(s, i, BI)
                /\ e > i + 2
                /\ alts # {}
             THEN SubSeq(s, i, i + 1) \o SubSeq(s, e, e + Len(COMPOUND_UNITS[k]) - 1)
                      \o JoinBi(s, e + Len(COMPOUND_UNITS[k]))
             ELSE <<s[i]>> \o JoinBi(s, i + 1)

\* \b(tan)\s+(ni)\s+ -> '\1 \2 ', under re.IGNORECASE
RECURSIVE SpaceTanNi(_, _)
SpaceTanNi(s, i) ==
    IF i > Len(s) THEN <<>>
    ELSE LET e == SkipWS(s, i + 3)
             f == SkipWS(s, e + 2)
         IN  IF /\ WordBoundary(s, i)
                /\ MatchesAt(s, i, <<"t", "a", "n">>)
                /\ e > i + 3
                /\ MatchesAt(s, e, CONNECTOR)
                /\ f > e + 2
             THEN SubSeq(s, i, i + 2) \o <<SP>> \o SubSeq(s, e, e + 1) \o <<SP>>
                      \o SpaceTanNi(s, f)
             ELSE <<s[i]>> \o SpaceTanNi(s, i + 1)

_normalize_compounds(s) == SpaceTanNi(JoinBi(s, 1), 1)

(***************************************************************************)
(* normalizer.py: the contraction pass                                     *)
(***************************************************************************)
KA == <<"k", "a">>
KE == <<"k", "&e">>
KO == <<"k", "o">>
NI == <<"n", "i">>
NA == <<"n", "a">>
MA == <<"m", "a">>
YE == <<"y", "e">>

\* _get_lookahead_base returns None
NONE == <<"None">>

\* re.match(letter + r"'([aeiou..]\w*)", word, re.IGNORECASE) succeeds
ContractionMatch(letter, word) ==
    /\ Len(word) >= 3
    /\ LowerChar(word[1]) = letter
    /\ word[2] = APOSTROPHE
    /\ word[3] \in ContractionVowels

\* group(1) of that match: the vowel and the word characters after it
MatchGroup(word) ==
    LET stop == {j \in 4..Len(word) : ~IsWordChar(word[j])}
        last == IF stop = {} THEN Len(word)
                ELSE (CHOOSE j \in stop : \A k \in stop : j <= k) - 1
    IN  SubSeq(word, 3, last)

\* as _get_lookahead_base, an unambiguous contraction folded as it is written
_get_lookahead_base_folded(word) ==
    LET word_lower == Lower(word)
    IN  IF /\ Len(word_lower) >= 3
           /\ word_lower[1] = "k"
           /\ word_lower[2] = APOSTROPHE
           /\ word_lower[3] \in {"a", "e", "i", "o", "u", "&e", "&o"}
        THEN NONE
        ELSE _strip_tones_and_punct(word_lower)

_get_lookahead_base(word) ==
    LET word_lower == Lower(word)
        hits == {k \in DOMAIN CONTRACTION_EXPANSIONS :
                    StartsWith(word_lower, CONTRACTION_EXPANSIONS[k][1])}
    IN  IF /\ Len(word_lower) >= 3
           /\ word_lower[1] = "k"
           /\ word_lower[2] = APOSTROPHE
           /\ word_lower[3] \in {"a", "e", "i", "o", "u", "&e", "&o"}
        THEN NONE
        ELSE IF hits # {}
        THEN CONTRACTION_EXPANSIONS[CHOOSE k \in hits : \A m \in hits : k <= m][2]
        ELSE _strip_tones_and_punct(word_lower)

\* as _predict_k_expansion, a following k' contraction not predicted in turn
_predict_k_expansion_flat(words, idx) ==
    IF idx > Len(words) THEN KA
    ELSE IF ~ContractionMatch("k", words[idx]) THEN KA
    ELSE IF idx + 1 <= Len(words)
    THEN LET next_base == _get_lookahead_base(words[idx + 1])
         IN  IF next_base = NONE THEN KA
             ELSE IF next_base \in KE_POSTPOSITIONS THEN KE
             ELSE IF next_base \in CLAUSE_MARKERS THEN KO
             ELSE IF next_base = MA
             THEN IF /\ idx + 3 <= Len(words)
                     /\ _strip_tones_and_punct(Lower(words[idx + 3])) = YE
                  THEN KE
                  ELSE IF /\ idx + 2 <= Len(words)
                          /\ _strip_tones_and_punct(Lower(words[idx + 2]))
                                 \in REPORTED_SPEECH_MARKERS
                  THEN KO
                  ELSE KE
             ELSE KA
    ELSE KA

\* words is 1-based here: idx is the source's idx + 1
RECURSIVE _predict_k_expansion(_, _)
_predict_k_expansion(words, idx) ==
    IF idx > Len(words) THEN KA
    ELSE IF ~ContractionMatch("k", words[idx]) THEN KA
    ELSE IF idx + 1 <= Len(words)
    THEN LET next_base == _get_lookahead_base(words[idx + 1])
         IN  IF next_base = NONE
             THEN IF _predict_k_expansion(words, idx + 1) = KA THEN KO ELSE KA
             ELSE IF next_base \in KE_POSTPOSITIONS THEN KE
             ELSE IF next_base \in CLAUSE_MARKERS THEN KO
             ELSE IF next_base = MA
             THEN IF /\ idx + 3 <= Len(words)
                     /\ _strip_tones_and_punct(Lower(words[idx + 3])) = YE
                  THEN KE
                  ELSE IF /\ idx + 2 <= Len(words)
                          /\ _strip_tones_and_punct(Lower(words[idx + 2]))
                                 \in REPORTED_SPEECH_MARKERS
                  THEN KO
                  ELSE KE
             ELSE KA
    ELSE KA

\* as KMorpheme, the reported-speech marker looked for before ye
KMorpheme_speech_first(words, i) ==
    IF i + 1 <= Len(words)
    THEN LET next_word_base == _get_lookahead_base(words[i + 1])
         IN  IF next_word_base = NONE
             THEN IF _predict_k_expansion(words, i + 1) = KA THEN KO ELSE KA
             ELSE IF next_word_base = MA
             THEN IF i + 2 <= Len(words)
                  THEN LET word_after_ma_base ==
                               _strip_tones_and_punct(Lower(words[i + 2]))
                       IN  IF word_after_ma_base \in REPORTED_SPEECH_MARKERS
                           THEN KO
                           ELSE IF /\ i + 3 <= Len(words)
                                   /\ _strip_tones_and_punct(Lower(words[i + 3])) = YE
                           THEN KE
                           ELSE KE
                  ELSE KE
             ELSE IF next_word_base \in KE_POSTPOSITIONS THEN KE
             ELSE IF next_word_base \in CLAUSE_MARKERS THEN KO
             ELSE KA
    ELSE KA

\* as KMorpheme, the reported-speech markers taken for the clause markers
KMorpheme_speech_set(words, i) ==
    IF i + 1 <= Len(words)
    THEN LET next_word_base == _get_lookahead_base(words[i + 1])
         IN  IF next_word_base = NONE
             THEN IF _predict_k_expansion(words, i + 1) = KA THEN KO ELSE KA
             ELSE IF next_word_base = MA
             THEN IF i + 2 <= Len(words)
                  THEN LET word_after_ma_base ==
                               _strip_tones_and_punct(Lower(words[i + 2]))
                       IN  IF i + 3 <= Len(words)
                           THEN IF _strip_tones_and_punct(Lower(words[i + 3])) = YE
                                THEN KE
                                ELSE IF word_after_ma_base \in REPORTED_SPEECH_MARKERS
                                THEN KO
                                ELSE KE
                           ELSE IF word_after_ma_base \in REPORTED_SPEECH_MARKERS
                           THEN KO
                           ELSE KE
                  ELSE KE
             ELSE IF next_word_base \in KE_POSTPOSITIONS THEN KE
             ELSE IF next_word_base \in REPORTED_SPEECH_MARKERS THEN KO
             ELSE KA
    ELSE KA

\* the morpheme the loop of _expand_k_contraction picks for words[i]
KMorpheme(words, i) ==
    IF i + 1 <= Len(words)
    THEN LET next_word_base == _get_lookahead_base(words[i + 1])
         IN  IF next_word_base = NONE
             THEN IF _predict_k_expansion(words, i + 1) = KA THEN KO ELSE KA
             ELSE IF next_word_base = MA
             THEN IF i + 2 <= Len(words)
                  THEN LET word_after_ma_base ==
                               _strip_tones_and_punct(Lower(words[i + 2]))
                       IN  IF i + 3 <= Len(words)
                           THEN IF _strip_tones_and_punct(Lower(words[i + 3])) = YE
                                THEN KE
                                ELSE IF word_after_ma_base \in REPORTED_SPEECH_MARKERS
                                THEN KO
                                ELSE KE
                           ELSE IF word_after_ma_base \in REPORTED_SPEECH_MARKERS
                           THEN KO
                           ELSE KE
                  ELSE KE
             ELSE IF next_word_base \in KE_POSTPOSITIONS THEN KE
             ELSE IF next_word_base \in CLAUSE_MARKERS THEN KO
             ELSE KA
    ELSE KA

_expand_k_contraction(s) ==
    LET words == SplitWS(s)
        result == [i \in 1..Len(words) |->
                      IF ContractionMatch("k", words[i])
                      THEN KMorpheme(words, i) \o <<SP>> \o MatchGroup(words[i])
                      ELSE words[i]]
    IN  Join(result, <<SP>>)

\* as NMorpheme, the next word compared as written
NMorpheme_raw(words, i) ==
    IF i + 1 <= Len(words)
    THEN IF words[i + 1] = MA THEN NA ELSE NI
    ELSE NI

\* the morpheme the loop of _expand_n_contraction picks for words[i]
NMorpheme(words, i) ==
    IF i + 1 <= Len(words)
    THEN IF _strip_tones_and_punct(Lower(words[i + 1])) = MA THEN NA ELSE NI
    ELSE NI

_expand_n_contraction(s) ==
    LET words == SplitWS(s)
        result == [i \in 1..Len(words) |->
                      IF ContractionMatch("n", words[i])
                      THEN NMorpheme(words, i) \o <<SP>> \o MatchGroup(words[i])
                      ELSE words[i]]
    IN  Join(result, <<SP>>)

_expand_contractions(s) ==
    SubEachCI(SubEachCI(_expand_n_contraction(_expand_k_contraction(s)),
                        EXTENDED_CONTRACTIONS, 1),
              SIMPLE_CONTRACTIONS, 1)

(***************************************************************************)
(* config.py: BambaraNormalizerConfig and its presets                      *)
(***************************************************************************)
BambaraNormalizerConfig(mode) == [
    contraction_mode |-> mode,
    preserve_tones |-> TRUE,
    normalize_legacy_orthography |-> TRUE,
    lowercase |-> TRUE,
    remove_punctuation |-> TRUE,
    normalize_whitespace |-> TRUE,
    normalize_apostrophes |-> TRUE,
    normalize_special_chars |-> TRUE,
    expand_numbers |-> FALSE,
    expand_dates |-> FALSE,
    expand_times |-> FALSE,
    expand_measurements |-> FALSE,
    remove_diacritics_except_tones |-> FALSE,
    handle_french_loanwords |-> TRUE,
    strip_repetitions |-> FALSE,
    normalize_compounds |-> FALSE ]

for_wer_evaluation(mode) == [
    contraction_mode |-> mode,
    preserve_tones |-> FALSE,
    normalize_legacy_orthography |-> TRUE,
    lowercase |-> TRUE,
    remove_punctuation |-> TRUE,
    normalize_whitespace |-> TRUE,
    normalize_apostrophes |-> TRUE,
    normalize_special_chars |-> TRUE,
    expand_numbers |-> TRUE,
    expand_dates |-> TRUE,
    expand_times |-> TRUE,
    expand_measurements |-> TRUE,
    remove_diacritics_except_tones |-> TRUE,
    handle_french_loanwords |-> TRUE,
    strip_repetitions |-> TRUE,
    normalize_compounds |-> TRUE ]

for_cer_evaluation(mode) == [
    contraction_mode |-> mode,
    preserve_tones |-> FALSE,
    normalize_legacy_orthography |-> TRUE,
    lowercase |-> TRUE,
    remove_punctuation |-> TRUE,
    normalize_whitespace |-> TRUE,
    normalize_apostrophes |-> TRUE,
    normalize_special_chars |-> TRUE,
    expand_numbers |-> TRUE,
    expand_dates |-> TRUE,
    expand_times |-> TRUE,
    expand_measurements |-> FALSE,
    remove_diacritics_except_tones |-> TRUE,
    handle_french_loanwords |-> TRUE,
    strip_repetitions |-> FALSE,
    normalize_compounds |-> TRUE ]

preserving_tones(mode) == [
    contraction_mode |-> mode,
    preserve_tones |-> TRUE,
    normalize_legacy_orthography |-> TRUE,
    lowercase |-> TRUE,
    remove_punctuation |-> TRUE,
    normalize_whitespace |-> TRUE,
    normalize_apostrophes |-> TRUE,
    normalize_special_chars |-> TRUE,
    expand_numbers |-> FALSE,
    expand_dates |-> FALSE,
    expand_times |-> FALSE,
    expand_measurements |-> FALSE,
    remove_diacritics_except_tones |-> FALSE,
    handle_french_loanwords |-> FALSE,
    strip_repetitions |-> FALSE,
    normalize_compounds |-> FALSE ]

minimal == [
    contraction_mode |-> "preserve",
    preserve_tones |-> TRUE,
    normalize_legacy_orthography |-> FALSE,
    lowercase |-> TRUE,
    remove_punctuation |-> FALSE,
    normalize_whitespace |-> TRUE,
    normalize_apostrophes |-> TRUE,
    normalize_special_chars |-> FALSE,
    expand_numbers |-> FALSE,
    expand_dates |-> FALSE,
    expand_times |-> FALSE,
    expand_measurements |-> FALSE,
    remove_diacritics_except_tones |-> FALSE,
    handle_french_loanwords |-> FALSE,
    strip_repetitions |-> FALSE,
    normalize_compounds |-> FALSE ]

\* the property expand_contractions
expand_contractions(c) == c.contraction_mode = "expand"

(***************************************************************************)
(* times.py: durations                                                     *)
(***************************************************************************)
LERE == <<"l", "&e", "r", "&e">>
MINITI == <<"m", "i", "n", "i", "t", "i">>
SEGONI == <<"s", "e", "g", "&o", "n", "i">>

duration_to_bambara(hours, minutes, seconds) ==
    LET hour_part == IF hours > 0
                     THEN << LERE \o <<SP>> \o number_to_bambara(IntNum(hours)) >> ELSE <<>>
        minute_part == IF minutes > 0
                       THEN << MINITI \o <<SP>> \o number_to_bambara(IntNum(minutes)) >> ELSE <<>>
        second_part == IF seconds > 0
                       THEN << SEGONI \o <<SP>> \o number_to_bambara(IntNum(seconds)) >> ELSE <<>>
        parts == hour_part \o minute_part \o second_part
    IN  IF parts = <<>> THEN SEGONI \o <<SP>> \o UNITS[1]
        ELSE Join(parts, <<SP>> \o CONNECTOR \o <<SP>>)

\* the unit word the part holds: the branch the loop body takes
UnitOf(part) ==
    IF Contains(part, Lower(LERE)) THEN Lower(LERE)
    ELSE IF Contains(part, Lower(MINITI)) THEN Lower(MINITI)
    ELSE IF Contains(part, Lower(SEGONI)) THEN Lower(SEGONI)
    ELSE <<>>

\* int(bambara_to_number(part with the unit word taken out))
DurationValue(part, unit) == bambara_to_number(Strip(Replace(part, unit, <<>>)))

\* the assignment of the branch; a ValueError of bambara_to_number ends the loop
SetUnit(acc, unit, v) ==
    IF v.kind = "error" THEN [kind |-> "error", msg |-> v.msg]
    ELSE IF unit = Lower(LERE) THEN [acc EXCEPT !.hours = v.ip]
    ELSE IF unit = Lower(MINITI) THEN [acc EXCEPT !.minutes = v.ip]
    ELSE [acc EXCEPT !.seconds = v.ip]

DurationPart(acc, part, unit) ==
    IF unit = <<>> THEN acc ELSE SetUnit(acc, unit, DurationValue(part, unit))

\* the loop over parts
RECURSIVE DurationLoop(_, _)
DurationLoop(parts, acc) ==
    IF parts = <<>> \/ acc.kind = "error" THEN acc
    ELSE DurationLoop(Tail(parts), DurationPart(acc, Head(parts), UnitOf(Head(parts))))

bambara_to_duration(phrase0) ==
    LET phrase_lower == Strip(Lower(phrase0))
        raw == SplitOn(phrase_lower, <<SP>> \o Lower(CONNECTOR) \o <<SP>>)
        parts == [i \in 1..Len(raw) |-> Strip(raw[i])]
    IN  DurationLoop(parts, [kind |-> "duration", hours |-> 0, minutes |-> 0, seconds |-> 0])

(***************************************************************************)
(* normalizer.py: create_normalizer                                        *)
(***************************************************************************)
\* the keys of the dictionary presets
PRESETS == {"standard", "wer", "cer", "preserving_tones", "minimal"}

\* presets[preset]()
PresetConfig(preset) ==
    CASE preset = "standard" -> BambaraNormalizerConfig("expand")
      [] preset = "wer" -> for_wer_evaluation("expand")
      [] preset = "cer" -> for_cer_evaluation("expand")
      [] preset = "preserving_tones" -> preserving_tones("expand")
      [] preset = "minimal" -> minimal

\* hasattr(config, key) for a keyword: the dataclass fields and the property
HasAttr(c, key) == key \in DOMAIN c \cup {"expand_contractions"}

\* setattr(config, key, value); expand_contractions goes through its setter
SetAttr(c, key, value) ==
    IF key = "expand_contractions"
    THEN [c EXCEPT !.contraction_mode = IF value THEN "expand" ELSE "preserve"]
    ELSE [c EXCEPT ![key] = value]

\* the loop over kwargs.items(); err is the ValueError it raises
RECURSIVE KwargsLoop(_, _)
KwargsLoop(c, kwargs) ==
    IF kwargs = <<>> THEN [err |-> FALSE, config |-> c, msg |-> <<>>]
    ELSE LET key == kwargs[1][1]
             value == kwargs[1][2]
         IN  IF HasAttr(c, key)
             THEN KwargsLoop(SetAttr(c, key, value), Tail(kwargs))
             ELSE [err |-> TRUE, config |-> c, msg |-> <<"Unknown configuration option", key>>]

create_normalizer(preset, kwargs) ==
    IF preset \notin PRESETS
    THEN [err |-> TRUE, config |-> [contraction_mode |-> "none"], msg |-> <<"Unknown preset", preset>>]
    ELSE KwargsLoop(PresetConfig(preset), kwargs)

(***************************************************************************)
(* normalizer.py: BambaraNormalizer.normalize                              *)
(***************************************************************************)
\* the stages of normalize: each pass runs when its toggle is set
ApostropheStage(c, s) == IF c.normalize_apostrophes THEN _normalize_apostrophes(s) ELSE s

ExpandStage(c, s) == IF expand_contractions(c) THEN _expand_contractions(s) ELSE s

LegacyStage(c, s) ==
    IF c.normalize_legacy_orthography THEN _normalize_legacy_orthography(s) ELSE s

SpecialStage(c, s) == IF c.normalize_special_chars THEN _normalize_special_chars(s) ELSE s

LowerStage(c, s) == IF c.lowercase THEN _lowercase(s) ELSE s

ToneStage(c, s) ==
    IF ~c.preserve_tones THEN _remove_tone_marks(s)
    ELSE IF c.remove_diacritics_except_tones THEN _remove_non_tone_diacritics(s)
    ELSE s

PunctuationStage(c, s) == IF c.remove_punctuation THEN _remove_punctuation(s) ELSE s

RepetitionStage(c, s) == IF c.strip_repetitions THEN _strip_repetitions(s) ELSE s

CompoundStage(c, s) == IF c.normalize_compounds THEN _normalize_compounds(s) ELSE s

WhitespaceStage(c, s) == IF c.normalize_whitespace THEN _normalize_whitespace(s) ELSE s

\* as ContractionStage, the apostrophes made canonical after the contraction pass
ContractionStage_late(c, t) == ApostropheStage(c, ExpandStage(c, NFC(t)))

\* the local text of normalize after the contraction stage (line 294)
ContractionStage(c, t) == ExpandStage(c, ApostropheStage(c, NFC(t)))

\* the stages of normalize after the contraction stage
LaterStages(c, t) ==
    LET legacy == LegacyStage(c, t)
        special == SpecialStage(c, legacy)
        lowered == LowerStage(c, special)
        toned == ToneStage(c, lowered)
        punct == PunctuationStage(c, toned)
        reps == RepetitionStage(c, punct)
        comp == CompoundStage(c, reps)
    IN  WhitespaceStage(c, comp)

normalize(c, t) ==
    IF t = <<>> THEN <<>> ELSE LaterStages(c, ContractionStage(c, t))

\* the passes of normalize in the order it runs them (lines 288-320); each
\* reads self.config when it is reached
StageCount == 11

Stage(k, c, s) ==
    CASE k = 1 -> NFC(s)
      [] k = 2 -> ApostropheStage(c, s)
      [] k = 3 -> ExpandStage(c, s)
      [] k = 4 -> LegacyStage(c, s)
      [] k = 5 -> SpecialStage(c, s)
      [] k = 6 -> LowerStage(c, s)
      [] k = 7 -> ToneStage(c, s)
      [] k = 8 -> PunctuationStage(c, s)
      [] k = 9 -> RepetitionStage(c, s)
      [] k = 10 -> CompoundStage(c, s)
      [] k = 11 -> WhitespaceStage(c, s)

\* normalize_batch(texts)
normalize_batch(c, texts) == [i \in DOMAIN texts |-> normalize(c, texts[i])]

\* get_normalization_diff(text)['final']
get_normalization_diff(c, t) ==
    LET apostrophes == ApostropheStage(c, NFC(t))
        contractions == ExpandStage(c, apostrophes)
        legacy == LegacyStage(c, contractions)
        lowered == LowerStage(c, legacy)
        tones == IF ~c.preserve_tones THEN _remove_tone_marks(lowered) ELSE lowered
        punct == PunctuationStage(c, tones)
    IN  WhitespaceStage(c, punct)

(***************************************************************************)
(* The interpreter's call stack under the recursion of                     *)
(* _predict_k_expansion (CPython 3.11, default recursion limit)            *)
(***************************************************************************)
\* sys.getrecursionlimit(): the depth at which a call raises RecursionError
RecursionLimit == 1000

\* frames a call of _predict_k_expansion still needs for its own calls:
\* _get_lookahead_base, re.match, re._compile and the compiled pattern
HelperFrames == 4

\* frames between the caller and the contraction pass
EntryFrames(fn) ==
    CASE fn = "normalize" -> 1                    \* normalize
      [] fn = "get_normalization_diff" -> 1       \* get_normalization_diff
      [] fn = "normalize_for_comparison" -> 2     \* normalize_for_comparison, normalize
      [] fn = "normalize_batch" -> 3              \* normalize_batch, its comprehension, normalize

\* frames of _expand_contractions and _expand_k_contraction
PassFrames == 2

\* the text of n words k'a and the word ma with a tone mark
RECURSIVE ChainText(_)
ChainText(n) ==
    IF n = 0 THEN <<"m", "a:g">> ELSE <<"k", "'", "a", SP>> \o ChainText(n - 1)

\* what the call returns once the contraction pass has come back
Returned(fn, c, t) ==
    CASE fn = "normalize" -> normalize(c, t)
      [] fn = "normalize_for_comparison" -> normalize(c, t)
      [] fn = "normalize_batch" -> normalize_batch(c, <<t>>)
      [] fn = "get_normalization_diff" -> get_normalization_diff(c, t)

(***************************************************************************)
(* Values of the variables a specification does not use                    *)
(***************************************************************************)
NoRequest == [preset |-> "none", kwargs |-> <<>>]
NoCalls == <<>>
NoStack == [fn |-> "none"]
CallsIdle ==
    /\ request = NoRequest
    /\ built = config
    /\ calls = NoCalls
    /\ stack = NoStack

NoNum == [kind |-> "none", neg |-> FALSE, ip |-> 0, frac |-> <<>>]
NoResult == [kind |-> "none"]

(***************************************************************************)
(* The numeral converter: a caller converts a number to words and parses   *)
(* the words back.                                                         *)
(***************************************************************************)
\* digit strings of length 1..MaxFracLen without a trailing zero, and "0"
RECURSIVE DigitSeqs(_)
DigitSeqs(k) ==
    IF k = 0 THEN {<<>>}
    ELSE {ds \o <<d>> : ds \in DigitSeqs(k - 1), d \in 0..9}

FracInputs ==
    {ds \in UNION {DigitSeqs(k) : k \in 1..MaxFracLen} : ds = DropTrailingZeros(ds)}

IntInputs ==
    (0..MaxSmall)
        \cup {g * 1000 + r : g \in 1..MaxGroup, r \in {0, 7, 250}}
        \cup {g * 1000000 + r : g \in 1..MaxGroup, r \in {0, 3000}}

FloatIntParts == {0, 5, 12}

NumInputs ==
    {IntNum(v) : v \in IntInputs}
        \cup {FloatNum(FALSE, ip, fr) : ip \in FloatIntParts, fr \in FracInputs}

NormIdle ==
    /\ config = [contraction_mode |-> "none"]
    /\ text = <<>>
    /\ expanded = <<>>
    /\ out = <<>>
    /\ out2 = <<>>

InitNum ==
    /\ pc = "num_start"
    /\ num \in NumInputs
    /\ phrase = <<>>
    /\ parsed = NoResult
    /\ NormIdle
    /\ CallsIdle

NumberToBambara ==
    /\ pc = "num_start"
    /\ phrase' = number_to_bambara(num)
    /\ pc' = "num_worded"
    /\ UNCHANGED <<num, parsed, config, text, expanded, out, out2, request, built, calls, stack>>

BambaraToNumber ==
    /\ pc = "num_worded"
    /\ parsed' = bambara_to_number(phrase)
    /\ pc' = "num_parsed"
    /\ UNCHANGED <<num, phrase, config, text, expanded, out, out2, request, built, calls, stack>>

NextNum == NumberToBambara \/ BambaraToNumber

SpecNum == InitNum /\ [][NextNum]_vars

(***************************************************************************)
(* The numeral converter on numbers below zero                             *)
(***************************************************************************)
SignedInputs ==
    {IntNum(-v) : v \in 1..MaxSmall}
        \cup {FloatNum(TRUE, ip, fr) : ip \in FloatIntParts, fr \in FracInputs}

InitSigned ==
    /\ pc = "num_start"
    /\ num \in SignedInputs
    /\ phrase = <<>>
    /\ parsed = NoResult
    /\ NormIdle
    /\ CallsIdle

NextSigned == NumberToBambara

SpecSigned == InitSigned /\ [][NextSigned]_vars

(***************************************************************************)
(* The normalizer: a caller builds an instance with a configuration and    *)
(* calls normalize on a text; follow-up calls take the returned text.      *)
(***************************************************************************)
MODES == {"expand", "contract", "preserve"}

\* the configurations create_normalizer and the presets can build
Configs ==
    {BambaraNormalizerConfig(m) : m \in MODES}
        \cup {for_wer_evaluation(m) : m \in MODES}
        \cup {for_cer_evaluation(m) : m \in MODES}
        \cup {preserving_tones(m) : m \in MODES}
        \cup {minimal}

\* the texts of at most n words of V, single-spaced
Texts(V, n) ==
    {Join(ws, <<SP>>) : ws \in UNION {[1..k -> V] : k \in 0..n}}

Vocab == {
    <<"b", "'", "a">>,            \* b'a
    <<"b", "&e">>,                \* b<open e>
    <<"a">>,
    <<"f", "&o">>,                \* f<open o>
    <<"k", "'", "a">>,            \* k'a
    <<"(", "k", "'", "a">>,       \* (k'a
    <<"B", "r'", "a", ",">> }     \* B'a, written with U+2019

NumIdle ==
    /\ num = NoNum
    /\ phrase = <<>>
    /\ parsed = NoResult

InitNorm ==
    /\ pc = "norm_start"
    /\ config \in Configs
    /\ text \in Texts(Vocab, MaxTokens)
    /\ expanded = <<>>
    /\ out = <<>>
    /\ out2 = <<>>
    /\ NumIdle
    /\ CallsIdle

\* normalizer(text)
Normalize ==
    /\ pc = "norm_start"
    /\ expanded' = IF text = <<>> THEN <<>> ELSE ContractionStage(config, text)
    /\ out' = IF text = <<>> THEN <<>> ELSE LaterStages(config, expanded')
    /\ pc' = "norm_done"
    /\ UNCHANGED <<num, phrase, parsed, config, text, out2, request, built, calls, stack>>

\* normalizer(normalizer(text)): the same instance on its own output
NormalizeAgain ==
    /\ pc = "norm_done"
    /\ out2' = normalize(config, out)
    /\ pc' = "norm_again"
    /\ UNCHANGED <<num, phrase, parsed, config, text, expanded, out, request, built, calls, stack>>

\* contract_normalizer(expand_normalizer(text)): an instance of the same
\* preset in contract mode on the output of the expand-mode instance
NormalizeContract ==
    /\ pc = "norm_done"
    /\ config.contraction_mode = "expand"
    /\ out2' = normalize([config EXCEPT !.contraction_mode = "contract"], out)
    /\ pc' = "norm_contracted"
    /\ UNCHANGED <<num, phrase, parsed, config, text, expanded, out, request, built, calls, stack>>

NextNorm == Normalize \/ NormalizeAgain \/ NormalizeContract

SpecNorm == InitNorm /\ [][NextNorm]_vars

\* expand-mode instances on texts of contractions and their neighbours
ExpandConfigs == {c \in Configs : c.contraction_mode = "expand"}

VocabExpand == {
    <<"b", "'", "a">>,                  \* b'a
    <<"t", "'", "o">>,                  \* t'o
    <<"Y", "'", "a", "l", "e">>,        \* Y'ale
    <<"m", "'", "a">>,                  \* m'a
    <<"s", "'", "i">>,                  \* s'i
    <<"n", "'", "a">>,                  \* n'a
    <<"M", "a", ",">>,                  \* Ma,
    <<"m", "a:g">>,                     \* ma with a grave accent
    <<"k", "'", "a">> }                 \* k'a

InitExpand ==
    /\ pc = "norm_start"
    /\ config \in ExpandConfigs
    /\ text \in Texts(VocabExpand, MaxTokens)
    /\ expanded = <<>>
    /\ out = <<>>
    /\ out2 = <<>>
    /\ NumIdle
    /\ CallsIdle

NextExpand == Normalize

SpecExpand == InitExpand /\ [][NextExpand]_vars

\* the default instance on texts around a k' contraction
VocabK == {
    <<"k", "'", "a">>,                  \* k'a
    <<"m", "a">>,                       \* ma
    <<"M", "a:g", ",">>,                \* Ma, with a grave accent
    <<"y", "e">>,                       \* ye: a postposition
    <<"k", "o">>,                       \* ko: a reported-speech marker only
    <<"k", "a">>,                       \* ka: a clause marker
    <<"t", "a">>,                       \* ta: in no set
    <<"y", "'", "a">> }                 \* y'a

InitK ==
    /\ pc = "norm_start"
    /\ config = BambaraNormalizerConfig("expand")
    /\ text \in Texts(VocabK, MaxTokensK)
    /\ expanded = <<>>
    /\ out = <<>>
    /\ out2 = <<>>
    /\ NumIdle
    /\ CallsIdle

NextK == Normalize

SpecK == InitK /\ [][NextK]_vars

\* the default instance on texts where contractions follow a k' contraction
VocabLook == {
    <<"k", "'", "a", "l", "e">>,        \* k'ale
    <<"b", "'", "a">>,                  \* b'a
    <<"t", "'", "a">>,                  \* t'a
    <<"y", "'", "a">>,                  \* y'a
    <<"m", "'", "i">>,                  \* m'i
    <<"S", "'", "a">>,                  \* S'a
    <<"k", "o">>,                       \* ko
    <<"y", "e">> }                      \* ye

InitLook ==
    /\ pc = "norm_start"
    /\ config = BambaraNormalizerConfig("expand")
    /\ text \in Texts(VocabLook, MaxTokensK)
    /\ expanded = <<>>
    /\ out = <<>>
    /\ out2 = <<>>
    /\ NumIdle
    /\ CallsIdle

NextLook == Normalize

SpecLook == InitLook /\ [][NextLook]_vars

\* instances built with the number-expansion toggle set, cleared, or by the WER preset
DigitConfigs ==
    {[BambaraNormalizerConfig("expand") EXCEPT !.expand_numbers = b] : b \in BOOLEAN}
        \cup {for_wer_evaluation("expand")}

VocabDigits == {
    <<"A">>,
    <<"y", "e">>,
    <<"5">>,
    <<"1", "0", "0">>,
    <<"w", "a", "r", "i">>,
    <<"d", "i">> }

InitDigits ==
    /\ pc = "norm_start"
    /\ config \in DigitConfigs
    /\ text \in Texts(VocabDigits, MaxTokens)
    /\ expanded = <<>>
    /\ out = <<>>
    /\ out2 = <<>>
    /\ NumIdle
    /\ CallsIdle

NextDigits == Normalize

SpecDigits == InitDigits /\ [][NextDigits]_vars

(***************************************************************************)
(* The convenience function: create_normalizer(preset, **kwargs), then the *)
(* instance on the text.                                                   *)
(***************************************************************************)
KwargsInputs ==
    {<<>>}
        \cup {<< <<"mode", m>> >> : m \in MODES}
        \cup {<< <<"contraction_mode", m>> >> : m \in MODES}
        \cup {<< <<"preserve_tones", FALSE>> >>, << <<"expand_contractions", FALSE>> >>}
        \cup {<< <<"expand_numbers", TRUE>>, <<"mode", m>> >> : m \in MODES}

Requests ==
    {[preset |-> p, kwargs |-> kw] : p \in PRESETS \cup {"fast"}, kw \in KwargsInputs}

VocabCreate == {
    <<"b", "'", "a">>,            \* b'a
    <<"b", "&e">>,                \* b<open e>
    <<"a">>,
    <<"f", "&o">> }               \* f<open o>

InitCreate ==
    /\ pc = "create_start"
    /\ request \in Requests
    /\ text \in Texts(VocabCreate, MaxTokensCreate)
    /\ config = [contraction_mode |-> "none"]
    /\ built = config
    /\ calls = NoCalls
    /\ stack = NoStack
    /\ expanded = <<>>
    /\ out = <<>>
    /\ out2 = <<>>
    /\ NumIdle

\* create_normalizer(preset, **kwargs): the instance, or the ValueError
CreateNormalizer ==
    /\ pc = "create_start"
    /\ LET r == create_normalizer(request.preset, request.kwargs)
       IN  IF r.err
           THEN /\ pc' = "create_raised"
                /\ UNCHANGED <<config, built>>
           ELSE /\ pc' = "norm_start"
                /\ config' = r.config
                /\ built' = r.config
    /\ UNCHANGED <<num, phrase, parsed, text, expanded, out, out2, request, calls, stack>>

NextCreate == CreateNormalizer \/ Normalize

SpecCreate == InitCreate /\ [][NextCreate]_vars

(***************************************************************************)
(* The duration converter: a caller words a duration and parses the words  *)
(* back.                                                                   *)
(***************************************************************************)
InitDuration ==
    /\ pc = "dur_start"
    /\ num \in [hours : 0..MaxDuration, minutes : 0..MaxDuration, seconds : 0..MaxDuration]
    /\ phrase = <<>>
    /\ parsed = NoResult
    /\ NormIdle
    /\ CallsIdle

DurationToBambara ==
    /\ pc = "dur_start"
    /\ phrase' = duration_to_bambara(num.hours, num.minutes, num.seconds)
    /\ pc' = "dur_worded"
    /\ UNCHANGED <<num, parsed, config, text, expanded, out, out2, request, built, calls, stack>>

BambaraToDuration ==
    /\ pc = "dur_worded"
    /\ parsed' = bambara_to_duration(phrase)
    /\ pc' = "dur_parsed"
    /\ UNCHANGED <<num, phrase, config, text, expanded, out, out2, request, built, calls, stack>>

NextDuration == DurationToBambara \/ BambaraToDuration

SpecDuration == InitDuration /\ [][NextDuration]_vars

\* expand-mode instances on contractions written with each apostrophe variant
ApostropheConfigs ==
    ExpandConfigs \cup {[BambaraNormalizerConfig("expand") EXCEPT !.normalize_apostrophes = FALSE]}

VocabApostrophe ==
    {<<"k", v, "a">> : v \in APOSTROPHE_VARIANTS}
        \cup {<<"B", "u02BC", "a", ",">>, <<"m", "a">>}

InitApostrophe ==
    /\ pc = "norm_start"
    /\ config \in ApostropheConfigs
    /\ text \in Texts(VocabApostrophe, MaxTokensApostrophe)
    /\ expanded = <<>>
    /\ out = <<>>
    /\ out2 = <<>>
    /\ NumIdle
    /\ CallsIdle

NextApostrophe == Normalize

SpecApostrophe == InitApostrophe /\ [][NextApostrophe]_vars

(***************************************************************************)
(* One instance, called again and again by one caller, on texts that are   *)
(* chains of k' contractions; the recursion of _predict_k_expansion is     *)
(* followed call by call.  stack.chain stands for the argument             *)
(* ChainText(stack.chain).                                                 *)
(***************************************************************************)
ChainLengths == {1, 3, MaxChain}

METHODS == {"normalize", "normalize_batch", "normalize_for_comparison", "get_normalization_diff"}

DeepConfigs == {BambaraNormalizerConfig("expand"), for_cer_evaluation("expand")}

InitDeep ==
    /\ pc = "deep_ready"
    /\ config \in DeepConfigs
    /\ built = config
    /\ \E depth \in 1..MaxCallerFrames :
          stack = [fn |-> "none", chain |-> 0, idx |-> 0, caller |-> depth, frames |-> depth,
                   saved |-> config, result |-> "none", made |-> 0]
    /\ request = NoRequest
    /\ calls = NoCalls
    /\ text = <<>>
    /\ expanded = <<>>
    /\ out = <<>>
    /\ out2 = <<>>
    /\ NumIdle

\* the caller calls a method; it runs up to the call of _expand_k_contraction
\* on the first word (normalize_for_comparison has swapped the configuration)
DeepCall ==
    /\ pc = "deep_ready"
    /\ stack.made < MaxCalls
    /\ \E fn \in METHODS, n \in ChainLengths :
          /\ stack' = [stack EXCEPT !.fn = fn, !.chain = n, !.idx = 0,
                                    !.frames = stack.caller + EntryFrames(fn) + PassFrames,
                                    !.saved = config, !.result = "none", !.made = @ + 1]
          /\ config' = IF fn = "normalize_for_comparison" THEN for_wer_evaluation("expand")
                       ELSE config
    /\ pc' = "deep_pass"
    /\ UNCHANGED <<num, phrase, parsed, text, expanded, out, out2, request, built, calls>>

\* the word after the one at idx is a k' word too
NextIsK == expand_contractions(config) /\ stack.idx + 1 < stack.chain

\* _predict_k_expansion(words, idx + 1) is called and looks at its word
DeepPredict ==
    /\ pc = "deep_pass"
    /\ NextIsK
    /\ stack.frames + 1 + HelperFrames <= RecursionLimit
    /\ stack' = [stack EXCEPT !.idx = @ + 1, !.frames = @ + 1]
    /\ UNCHANGED <<pc, num, phrase, parsed, config, text, expanded, out, out2, request, built, calls>>

\* the call exceeds the recursion limit: RecursionError unwinds every frame
\* up to the caller (normalize_for_comparison has no finally clause)
DeepRaise ==
    /\ pc = "deep_pass"
    /\ NextIsK
    /\ stack.frames + 1 + HelperFrames > RecursionLimit
    /\ stack' = [stack EXCEPT !.frames = stack.caller, !.result = "raised"]
    /\ pc' = "deep_ready"
    /\ UNCHANGED <<num, phrase, parsed, config, text, expanded, out, out2, request, built, calls>>

\* the prediction for the first word comes back; the later words recurse
\* less deep, the remaining stages run, and the method returns
DeepReturn ==
    /\ pc = "deep_pass"
    /\ ~NextIsK
    /\ out' = Returned(stack.fn, config, ChainText(stack.chain))
    /\ config' = IF stack.fn = "normalize_for_comparison" THEN stack.saved ELSE config
    /\ stack' = [stack EXCEPT !.frames = stack.caller, !.result = "returned"]
    /\ pc' = "deep_ready"
    /\ UNCHANGED <<num, phrase, parsed, text, expanded, out2, request, built, calls>>

NextDeep == DeepCall \/ DeepPredict \/ DeepRaise \/ DeepReturn

SpecDeep == InitDeep /\ [][NextDeep]_vars

(***************************************************************************)
(* Two threads call one instance; the interpreter may switch threads       *)
(* between any two passes of normalize and between the statements of       *)
(* normalize_for_comparison.                                               *)
(***************************************************************************)
Threads == {1, 2}

ThreadMethods == {"normalize", "normalize_for_comparison"}

ThreadTexts == {<<>>, <<"m", "a:g">>, <<"B", "r'", "a", ",">>}

ThreadConfigs == {BambaraNormalizerConfig("expand"), minimal}

InitThreads ==
    /\ pc = "threads"
    /\ config \in ThreadConfigs
    /\ built = config
    /\ calls \in [Threads -> [fn : ThreadMethods, arg : ThreadTexts, at : {"start"},
                              stage : {0}, local : {<<>>}, saved : {config}, ret : {<<>>}]]
    /\ request = NoRequest
    /\ stack = NoStack
    /\ text = <<>>
    /\ expanded = <<>>
    /\ out = <<>>
    /\ out2 = <<>>
    /\ NumIdle

\* entry of normalize: the empty text returns at once
EnterNormalize(call) ==
    IF call.arg = <<>>
    THEN [call EXCEPT !.local = <<>>,
                      !.at = IF call.fn = "normalize_for_comparison" THEN "restore" ELSE "returned"]
    ELSE [call EXCEPT !.local = call.arg, !.stage = 1, !.at = "stage"]

\* normalize(text) is entered
ThreadEnter ==
    /\ \E t \in Threads :
          /\ calls[t].at = "start"
          /\ calls[t].fn = "normalize"
          /\ calls' = [calls EXCEPT ![t] = EnterNormalize(@)]
    /\ UNCHANGED <<config, pc, num, phrase, parsed, text, expanded, out, out2, request, built, stack>>

\* normalize_for_comparison: original_config = self.config
ThreadSave ==
    /\ \E t \in Threads :
          /\ calls[t].at = "start"
          /\ calls[t].fn = "normalize_for_comparison"
          /\ calls' = [calls EXCEPT ![t].saved = config, ![t].at = "saved"]
    /\ UNCHANGED <<config, pc, num, phrase, parsed, text, expanded, out, out2, request, built, stack>>

\* normalize_for_comparison: self.config = for_wer_evaluation(), normalize entered
ThreadSwap ==
    /\ \E t \in Threads :
          /\ calls[t].at = "saved"
          /\ config' = for_wer_evaluation("expand")
          /\ calls' = [calls EXCEPT ![t] = EnterNormalize(@)]
    /\ UNCHANGED <<pc, num, phrase, parsed, text, expanded, out, out2, request, built, stack>>

\* one pass of normalize, under the configuration the instance has now
ThreadStage ==
    /\ \E t \in Threads :
          /\ calls[t].at = "stage"
          /\ LET after == Stage(calls[t].stage, config, calls[t].local)
             IN  calls' = [calls EXCEPT
                      ![t].local = after,
                      ![t].stage = IF @ = StageCount THEN 0 ELSE @ + 1,
                      ![t].ret = IF calls[t].stage = StageCount /\ calls[t].fn = "normalize"
                                 THEN after ELSE @,
                      ![t].at = IF calls[t].stage < StageCount THEN "stage"
                                ELSE IF calls[t].fn = "normalize_for_comparison" THEN "restore"
                                ELSE "returned"]
    /\ UNCHANGED <<config, pc, num, phrase, parsed, text, expanded, out, out2, request, built, stack>>

\* normalize_for_comparison: self.config = original_config; return result
ThreadRestore ==
    /\ \E t \in Threads :
          /\ calls[t].at = "restore"
          /\ config' = calls[t].saved
          /\ calls' = [calls EXCEPT ![t].ret = calls[t].local, ![t].at = "returned"]
    /\ UNCHANGED <<pc, num, phrase, parsed, text, expanded, out, out2, request, built, stack>>

NextThreads == ThreadEnter \/ ThreadSave \/ ThreadSwap \/ ThreadStage \/ ThreadRestore

SpecThreads == InitThreads /\ [][NextThreads]_vars

(***************************************************************************)
(* Numerals under the presets: a caller builds the normalizer of a preset  *)
(* and calls normalize on a text with numerals.                            *)
(***************************************************************************)
PresetConfigs == {PresetConfig(p) : p \in PRESETS}

VocabNumerals == {
    <<"A">>,
    <<"y", "e">>,
    <<"1", "0", "0", "0">>,
    <<"1", "0", "0">>,
    <<"2", "0", "0", "0", ".">> }       \* 2000.

InitNumerals ==
    /\ pc = "norm_start"
    /\ config \in PresetConfigs
    /\ text \in Texts(VocabNumerals, MaxTokens)
    /\ expanded = <<>>
    /\ out = <<>>
    /\ out2 = <<>>
    /\ NumIdle
    /\ CallsIdle

NextNumerals == Normalize

SpecNumerals == InitNumerals /\ [][NextNumerals]_vars

(***************************************************************************)
(* Numerals in running text: a caller passes a sentence with numerals to   *)
(* normalize_numbers_in_text.                                              *)
(***************************************************************************)
VocabInText == {
    <<"A">>,
    <<"y", "e">>,
    <<"5">>,
    <<"5", ".">>,                       \* 5.
    <<"1", "0", "0", ",">>,             \* 100,
    <<"1", "2", ".", "5">> }            \* 12.5

InitInText ==
    /\ pc = "intext_start"
    /\ config = [contraction_mode |-> "none"]
    /\ text \in Texts(VocabInText, MaxTokens)
    /\ expanded = <<>>
    /\ out = <<>>
    /\ out2 = <<>>
    /\ NumIdle
    /\ CallsIdle

NormalizeNumbersInText ==
    /\ pc = "intext_start"
    /\ out' = normalize_numbers_in_text(text)
    /\ pc' = "intext_done"
    /\ UNCHANGED <<num, phrase, parsed, config, text, expanded, out2, request, built, calls, stack>>

NextInText == NormalizeNumbersInText

SpecInText == InitInText /\ [][NextInText]_vars

(***************************************************************************)
(* Contractions with attachments: a caller normalizes, in expand mode,     *)
(* texts whose k' and n' words carry a suffix or a punctuation mark.       *)
(***************************************************************************)
VocabAttach == {
    <<"k", "'", "a", "-", "l", "a">>,   \* k'a-la
    <<"k", "'", "a", ".">>,             \* k'a.
    <<"n", "'", "i", ",">>,             \* n'i,
    <<"n", "'", "a">>,                  \* n'a
    <<"m", "a">>,                       \* ma
    <<"y", "e">> }                      \* ye

InitAttach ==
    /\ pc = "norm_start"
    /\ config = BambaraNormalizerConfig("expand")
    /\ text \in Texts(VocabAttach, MaxTokens)
    /\ expanded = <<>>
    /\ out = <<>>
    /\ out2 = <<>>
    /\ NumIdle
    /\ CallsIdle

NextAttach == Normalize

SpecAttach == InitAttach /\ [][NextAttach]_vars

(***************************************************************************)
(* The diff of the passes: a caller normalizes a text and asks the same    *)
(* instance for get_normalization_diff of the same text.                   *)
(***************************************************************************)
VocabDiff == {
    <<"a", "a", "a">>,                  \* aaa
    <<"b", "a", "a", "a", "r", "a">>,   \* baaara
    <<"k", "'", "a">>,                  \* k'a
    <<"M", "a:g", ",">>,                \* Ma, with a grave accent
    <<"y", "e">> }                      \* ye

InitDiff ==
    /\ pc = "norm_start"
    /\ config \in PresetConfigs
    /\ text \in Texts(VocabDiff, MaxTokens)
    /\ expanded = <<>>
    /\ out = <<>>
    /\ out2 = <<>>
    /\ NumIdle
    /\ CallsIdle

\* normalizer.get_normalization_diff(text)['final']
GetNormalizationDiff ==
    /\ pc = "norm_done"
    /\ out2' = get_normalization_diff(config, text)
    /\ pc' = "diff_done"
    /\ UNCHANGED <<num, phrase, parsed, config, text, expanded, out, request, built, calls, stack>>

NextDiff == Normalize \/ GetNormalizationDiff

SpecDiff == InitDiff /\ [][NextDiff]_vars

(***************************************************************************)
(* The k' pass step by step: the while loop of _expand_k_contraction over  *)
(* the words, and the calls of _predict_k_expansion it makes.  stack.i is  *)
(* the scan index and stack.frames the idx of every active call of         *)
(* _predict_k_expansion, the outermost first (both 1-based); stack.ret is  *)
(* the value the last completed call returned.                             *)
(***************************************************************************)
VocabScan == {
    <<"k", "'", "a">>,                  \* k'a
    <<"K", "'", "o", ",">>,             \* K'o,
    <<"m", "a">>,                       \* ma
    <<"y", "e">> }                      \* ye

\* the index a call of _predict_k_expansion at idx passes to its recursive call
PredictCallee_same(idx) == idx
PredictCallee(idx) == idx + 1

\* the call at idx goes on to its recursive call
PredictRecurses(words, idx) ==
    /\ idx <= Len(words)
    /\ ContractionMatch("k", words[idx])
    /\ idx + 1 <= Len(words)
    /\ _get_lookahead_base(words[idx + 1]) = NONE

\* ka is a clause marker -> ko; otherwise ka
AfterPredicted(predicted) == IF predicted = KA THEN KO ELSE KA

\* the pass has split the text: words = text.split(); result = []; i = 0
InitScan ==
    /\ pc = "scan_loop"
    /\ config = BambaraNormalizerConfig("expand")
    /\ text \in Texts(VocabScan, MaxTokensScan)
    /\ expanded = <<>>
    /\ out = <<>>
    /\ out2 = <<>>
    /\ NumIdle
    /\ request = NoRequest
    /\ built = config
    /\ calls = NoCalls
    /\ stack = [fn |-> "_expand_k_contraction", words |-> SplitWS(text), i |-> 1,
                frames |-> <<>>, result |-> <<>>, ret |-> NONE]

\* one iteration that needs no prediction: result.append(...); i += 1
ScanWord ==
    /\ pc = "scan_loop"
    /\ stack.i <= Len(stack.words)
    /\ ~(ContractionMatch("k", stack.words[stack.i]) /\ PredictRecurses(stack.words, stack.i))
    /\ stack' = [stack EXCEPT
           !.result = Append(@,
               IF ContractionMatch("k", stack.words[stack.i])
               THEN KMorpheme(stack.words, stack.i) \o <<SP>> \o MatchGroup(stack.words[stack.i])
               ELSE stack.words[stack.i]),
           !.i = @ + 1]
    /\ UNCHANGED <<pc, num, phrase, parsed, config, text, expanded, out, out2, request, built, calls>>

\* the next word is a k' contraction: predicted = self._predict_k_expansion(words, i + 1)
ScanPredict ==
    /\ pc = "scan_loop"
    /\ stack.i <= Len(stack.words)
    /\ ContractionMatch("k", stack.words[stack.i])
    /\ PredictRecurses(stack.words, stack.i)
    /\ stack' = [stack EXCEPT !.frames = <<stack.i + 1>>, !.ret = NONE]
    /\ pc' = "scan_predict"
    /\ UNCHANGED <<num, phrase, parsed, config, text, expanded, out, out2, request, built, calls>>

\* the innermost call finds a k' contraction after its own and calls itself
PredictCall ==
    /\ pc = "scan_predict"
    /\ stack.frames # <<>>
    /\ stack.ret = NONE
    /\ PredictRecurses(stack.words, stack.frames[Len(stack.frames)])
    /\ stack' = [stack EXCEPT
           !.frames = Append(@, PredictCallee(stack.frames[Len(stack.frames)]))]
    /\ UNCHANGED <<pc, num, phrase, parsed, config, text, expanded, out, out2, request, built, calls>>

\* the innermost call returns: its own answer, or the one it makes of its callee's
PredictReturn ==
    /\ pc = "scan_predict"
    /\ Len(stack.frames) > 1
    /\ stack.ret # NONE \/ ~PredictRecurses(stack.words, stack.frames[Len(stack.frames)])
    /\ stack' = [stack EXCEPT
           !.ret = IF stack.ret # NONE THEN AfterPredicted(stack.ret)
                   ELSE _predict_k_expansion(stack.words, stack.frames[Len(stack.frames)]),
           !.frames = SubSeq(@, 1, Len(@) - 1)]
    /\ UNCHANGED <<pc, num, phrase, parsed, config, text, expanded, out, out2, request, built, calls>>

\* the outermost call returns to the loop: result.append(...); i += 1
ScanPredicted ==
    /\ pc = "scan_predict"
    /\ Len(stack.frames) = 1
    /\ stack.ret # NONE \/ ~PredictRecurses(stack.words, stack.frames[1])
    /\ LET predicted == IF stack.ret # NONE THEN AfterPredicted(stack.ret)
                        ELSE _predict_k_expansion(stack.words, stack.frames[1])
       IN  stack' = [stack EXCEPT
               !.result = Append(@, AfterPredicted(predicted) \o <<SP>>
                                        \o MatchGroup(stack.words[stack.i])),
               !.frames = <<>>,
               !.ret = NONE,
               !.i = @ + 1]
    /\ pc' = "scan_loop"
    /\ UNCHANGED <<num, phrase, parsed, config, text, expanded, out, out2, request, built, calls>>

\* i = len(words): return ' '.join(result)
ScanDone ==
    /\ pc = "scan_loop"
    /\ stack.i > Len(stack.words)
    /\ expanded' = Join(stack.result, <<SP>>)
    /\ pc' = "scan_done"
    /\ UNCHANGED <<num, phrase, parsed, config, text, out, out2, request, built, calls, stack>>

NextScan ==
    \/ ScanWord
    \/ ScanPredict
    \/ PredictCall
    \/ PredictReturn
    \/ ScanPredicted
    \/ ScanDone

SpecScan == InitScan /\ [][NextScan]_vars

\* a call that has started runs on: no step of the pass waits for anything
SpecScanLive == SpecScan /\ WF_vars(NextScan)

(***************************************************************************)
(* A magnitude word with a multiplier: a caller writes 'waa' and the words *)
(* of k, as _int_to_bambara writes the thousands group of k * 1000, and    *)
(* parses the phrase.                                                      *)
(***************************************************************************)
InitThousands ==
    /\ pc = "waa_start"
    /\ num \in {IntNum(k) : k \in 1..MaxMultiplier}
    /\ phrase = <<>>
    /\ parsed = NoResult
    /\ NormIdle
    /\ CallsIdle

WordThousands ==
    /\ pc = "waa_start"
    /\ phrase' = THOUSAND \o <<SP>> \o number_to_bambara(num)
    /\ pc' = "waa_worded"
    /\ UNCHANGED <<num, parsed, config, text, expanded, out, out2, request, built, calls, stack>>

ParseThousands ==
    /\ pc = "waa_worded"
    /\ parsed' = bambara_to_number(phrase)
    /\ pc' = "waa_parsed"
    /\ UNCHANGED <<num, phrase, config, text, expanded, out, out2, request, built, calls, stack>>

NextThousands == WordThousands \/ ParseThousands

SpecThousands == InitThousands /\ [][NextThousands]_vars

(***************************************************************************)
(* The numeral parser on phrases a caller writes, unknown words included.  *)
(***************************************************************************)
VocabParse == {
    <<"k", "e", "l", "e", "n">>,        \* kelen
    <<"d", "u", "u", "r", "u">>,        \* duuru
    <<"t", "a", "n">>,                  \* tan
    <<"w", "a", "a">>,                  \* waa
    <<"k", "&e", "m", "&e">>,           \* kɛmɛ
    CONNECTOR,
    DECIMAL_SEP,
    <<"f", "o", "o">> }                 \* foo, no numeral

InitParse ==
    /\ pc = "parse_start"
    /\ num = NoNum
    /\ phrase \in Texts(VocabParse, MaxPhraseTokens)
    /\ parsed = NoResult
    /\ NormIdle
    /\ CallsIdle

ParsePhrase ==
    /\ pc = "parse_start"
    /\ parsed' = bambara_to_number(phrase)
    /\ pc' = "parse_done"
    /\ UNCHANGED <<num, phrase, config, text, expanded, out, out2, request, built, calls, stack>>

NextParse == ParsePhrase

SpecParse == InitParse /\ [][NextParse]_vars

(***************************************************************************)
(* C1: for every integer n with 0 <= n < 1,000,000,000,                    *)
(* bambara_to_number(number_to_bambara(n)) returns n.                      *)
(***************************************************************************)
C1_RoundTripInt ==
    (pc = "num_parsed" /\ num.kind = "int" /\ ~num.neg)
        => (parsed.kind = "int" /\ parsed.ip = num.ip)

(***************************************************************************)
(* C2: for every non-negative decimal with integer part below              *)
(* 1,000,000,000 and fractional digits d1..dk, the round trip returns the  *)
(* same value: the integer part and every fractional digit, in order.      *)
(***************************************************************************)
C2_RoundTripDecimal ==
    (pc = "num_parsed" /\ num.kind = "float" /\ ~num.neg)
        => (parsed.kind = "float" /\ parsed.ip = num.ip /\ parsed.frac = num.frac)

(***************************************************************************)
(* Vocabulary of the claims about the contraction pass                     *)
(***************************************************************************)
\* the words of the input once its apostrophes are canonical
InWords == SplitWS(_normalize_apostrophes(NFC(text)))

\* the words the contraction stage left
OutWords == SplitWS(expanded)

\* a word's folded form: lower-cased, tone marks and punctuation stripped
Fold(w) == _strip_tones_and_punct(Lower(w))

UnambiguousLetters == {"b", "t", "y", "m", "s"}

\* the word is an unambiguous prefix, an apostrophe and a stem
IsUnambiguous(w) ==
    Len(w) >= 3 /\ LowerChar(w[1]) \in UnambiguousLetters /\ w[2] = APOSTROPHE

\* the word is k' or n' and a vowel-initial stem
IsAmbiguous(w) == ContractionMatch("k", w) \/ ContractionMatch("n", w)

\* number of words a word of the input gives in expand mode
Width(w) == IF IsUnambiguous(w) \/ IsAmbiguous(w) THEN 2 ELSE 1

\* position in the output of the first word that input word i gives
RECURSIVE Off(_, _)
Off(ws, i) == IF i = 1 THEN 1 ELSE Off(ws, i - 1) + Width(ws[i - 1])

ExpandDone == pc = "norm_done" /\ config.contraction_mode = "expand" /\ text # <<>>

\* the morpheme and the stem the output holds for input word i
OutMorpheme(i) == OutWords[Off(InWords, i)]
OutStem(i) == OutWords[Off(InWords, i) + 1]

(***************************************************************************)
(* C3: normalization is idempotent: under every preset and contraction     *)
(* mode, normalizing the output of normalize again returns it unchanged.   *)
(***************************************************************************)
C3_Idempotent == pc = "norm_again" => out2 = out

(***************************************************************************)
(* C4: in contract mode the words are scanned left to right; a word whose  *)
(* folded form is an expanded particle, followed by a word whose folded    *)
(* form starts with a vowel, is merged with it into <prefix><next word>    *)
(* and the scan advances two words; every other word is emitted unchanged. *)
(***************************************************************************)
\* the elision prefix of each expanded particle
PrefixOfExpansion == <<
    << <<"b", "&e">>, <<"b", "'">> >>,
    << <<"t", "&e">>, <<"t", "'">> >>,
    << <<"y", "e">>, <<"y", "'">> >>,
    << <<"n", "i">>, <<"n", "'">> >>,
    << <<"n", "a">>, <<"n", "'">> >>,
    << <<"k", "a">>, <<"k", "'">> >>,
    << <<"k", "&e">>, <<"k", "'">> >>,
    << <<"k", "o">>, <<"k", "'">> >>,
    << <<"m", "a">>, <<"m", "'">> >>,
    << <<"s", "a">>, <<"s", "'">> >> >>

FoldedVowels == {"a", "e", "i", "o", "u", "&e", "&o"}

RECURSIVE ContractScan(_, _)
ContractScan(ws, i) ==
    IF i > Len(ws) THEN <<>>
    ELSE IF /\ InDict(PrefixOfExpansion, Fold(ws[i]))
            /\ i + 1 <= Len(ws)
            /\ Fold(ws[i + 1]) # <<>>
            /\ Fold(ws[i + 1])[1] \in FoldedVowels
    THEN <<DictGet(PrefixOfExpansion, Fold(ws[i])) \o ws[i + 1]>> \o ContractScan(ws, i + 2)
    ELSE <<ws[i]>> \o ContractScan(ws, i + 1)

C4_ContractMerges ==
    (pc = "norm_done" /\ config.contraction_mode = "contract" /\ text # <<>>)
        => OutWords = ContractScan(InWords, 1)

(***************************************************************************)
(* C5: for a text of ordinary words and of contractions b', t' or y' with  *)
(* a vowel-initial stem, normalizing in expand mode and then normalizing   *)
(* the result in contract mode returns the original text.                  *)
(***************************************************************************)
PlainLetters == {"a", "b", "f", "k", "t", "y", "&e", "&o"}

IsOrdinaryWord(w) ==
    /\ \A k \in 1..Len(w) : w[k] \in PlainLetters
    /\ ~InDict(PrefixOfExpansion, w)

IsBTYContraction(w) ==
    /\ Len(w) >= 3
    /\ w[1] \in {"b", "t", "y"}
    /\ w[2] = APOSTROPHE
    /\ w[3] \in FoldedVowels
    /\ \A k \in 3..Len(w) : w[k] \in PlainLetters

C5_ExpandContractInverse ==
    (/\ pc = "norm_contracted"
     /\ text # <<>>
     /\ \A k \in 1..Len(SplitWS(text)) :
            IsOrdinaryWord(SplitWS(text)[k]) \/ IsBTYContraction(SplitWS(text)[k]))
        => out2 = text

(***************************************************************************)
(* C6: in preserve mode the contraction pass changes nothing: a contracted *)
(* word keeps its apostrophe, an expanded sequence stays expanded, and no  *)
(* other pass (punctuation removal included) removes an apostrophe.        *)
(***************************************************************************)
ApostropheCount(w) == Len(SelectSeq(w, LAMBDA c : c \in APOSTROPHE_VARIANTS))

C6_PreserveKeeps ==
    (pc = "norm_done" /\ config.contraction_mode = "preserve" /\ text # <<>>)
        => /\ OutWords = InWords
           /\ Len(SplitWS(out)) = Len(InWords)
           /\ \A k \in 1..Len(InWords) :
                  ApostropheCount(SplitWS(out)[k]) = ApostropheCount(InWords[k])

C6_Witness ==
    /\ pc = "norm_done"
    /\ config = for_wer_evaluation("preserve")
    /\ text = <<"B", "r'", "a", ",", " ", "b", "&e", " ", "a">>
    /\ out = <<"b", "'", "a", " ", "b", "&e", " ", "a">>

(***************************************************************************)
(* C7: in expand mode every word that is an unambiguous prefix (b', t',    *)
(* y', m', s') and a stem is rewritten as the prefix's bound form followed *)
(* by the stem, whatever the surrounding words are.                        *)
(***************************************************************************)
BoundForm(letter) ==
    CASE letter = "b" -> <<"b", "&e">>
      [] letter = "t" -> <<"t", "&e">>
      [] letter = "y" -> <<"y", "e">>
      [] letter = "m" -> <<"m", "a">>
      [] letter = "s" -> <<"s", "a">>

C7_UnambiguousExpand ==
    ExpandDone =>
        \A i \in 1..Len(InWords) :
            IsUnambiguous(InWords[i]) =>
                /\ OutMorpheme(i) = BoundForm(LowerChar(InWords[i][1]))
                /\ OutStem(i) = SubSeq(InWords[i], 3, Len(InWords[i]))

C7_Witness ==
    /\ ExpandDone
    /\ InWords = << <<"k", "'", "a">>, <<"Y", "'", "a", "l", "e">>, <<"s", "'", "i">> >>
    /\ OutWords = << <<"k", "&e">>, <<"a">>, <<"y", "e">>, <<"a", "l", "e">>,
                     <<"s", "a">>, <<"i">> >>

(***************************************************************************)
(* C8: in expand mode a word n' + vowel-initial stem becomes na + stem     *)
(* when the next word's folded form is ma, and ni + stem in every other    *)
(* case, also when there is no next word; only the next word is consulted. *)
(***************************************************************************)
C8_NExpand ==
    ExpandDone =>
        \A i \in 1..Len(InWords) :
            ContractionMatch("n", InWords[i]) =>
                /\ OutMorpheme(i) =
                       IF i + 1 <= Len(InWords) /\ Fold(InWords[i + 1]) = MA THEN NA ELSE NI
                /\ OutStem(i) = MatchGroup(InWords[i])

C8_Witness ==
    /\ ExpandDone
    /\ InWords = << <<"n", "'", "a">>, <<"M", "a", ",">>, <<"n", "'", "a">> >>
    /\ OutWords = << <<"n", "a">>, <<"a">>, <<"M", "a", ",">>, <<"n", "i">>, <<"a">> >>

(***************************************************************************)
(* C9: in expand mode, for a word k' + stem whose next word folds to ma:   *)
(* k<open e> when ma is followed by one word and then a word folding to    *)
(* ye, even if the word right after ma is a reported-speech marker;        *)
(* otherwise ko when the word right after ma is a reported-speech marker;  *)
(* otherwise k<open e>, also when ma is the last word.                     *)
(***************************************************************************)
C9_KBeforeMa ==
    ExpandDone =>
        \A i \in 1..Len(InWords) :
            (/\ ContractionMatch("k", InWords[i])
             /\ i + 1 <= Len(InWords)
             /\ Fold(InWords[i + 1]) = MA)
                => OutMorpheme(i) =
                       IF i + 3 <= Len(InWords) /\ Fold(InWords[i + 3]) = YE THEN KE
                       ELSE IF /\ i + 2 <= Len(InWords)
                               /\ Fold(InWords[i + 2]) \in REPORTED_SPEECH_MARKERS
                       THEN KO
                       ELSE KE

C9_Witness ==
    /\ ExpandDone
    /\ InWords = << <<"k", "'", "a">>, <<"M", "a:g", ",">>, <<"k", "o">>, <<"y", "e">> >>
    /\ OutWords = << <<"k", "&e">>, <<"a">>, <<"M", "a:g", ",">>, <<"k", "o">>, <<"y", "e">> >>

(***************************************************************************)
(* C10 as stated: in expand mode, for a word k' + stem whose next word is  *)
(* not a k' contraction and does not fold to ma, the morpheme is k<open e> *)
(* when the folded next word is a postposition, otherwise ko when it is a  *)
(* clause marker, otherwise ka; ka when there is no next word; the output  *)
(* is the morpheme, a space and the stem.                                  *)
(***************************************************************************)
IsKContraction(w) == ContractionMatch("k", Lower(w))

BySets(base) ==
    IF base \in KE_POSTPOSITIONS THEN KE
    ELSE IF base \in CLAUSE_MARKERS THEN KO
    ELSE KA

C10_KOtherNext_Original ==
    ExpandDone =>
        \A i \in 1..Len(InWords) :
            ContractionMatch("k", InWords[i]) =>
                /\ i = Len(InWords) => OutMorpheme(i) = KA
                /\ (/\ i + 1 <= Len(InWords)
                    /\ ~IsKContraction(InWords[i + 1])
                    /\ Fold(InWords[i + 1]) # MA)
                       => OutMorpheme(i) = BySets(Fold(InWords[i + 1]))
                /\ OutStem(i) = MatchGroup(InWords[i])

(***************************************************************************)
(* C10 amended: the same, for a next word that is neither a k' contraction *)
(* nor a word starting with an unambiguous prefix (b', t', y', m', s').    *)
(***************************************************************************)
StartsUnambiguous(w) ==
    Len(w) >= 2 /\ LowerChar(w[1]) \in UnambiguousLetters /\ w[2] = APOSTROPHE

C10_KOtherNext ==
    ExpandDone =>
        \A i \in 1..Len(InWords) :
            ContractionMatch("k", InWords[i]) =>
                /\ i = Len(InWords) => OutMorpheme(i) = KA
                /\ (/\ i + 1 <= Len(InWords)
                    /\ ~IsKContraction(InWords[i + 1])
                    /\ ~StartsUnambiguous(InWords[i + 1])
                    /\ Fold(InWords[i + 1]) # MA)
                       => OutMorpheme(i) = BySets(Fold(InWords[i + 1]))
                /\ OutStem(i) = MatchGroup(InWords[i])

C10_Witness ==
    /\ ExpandDone
    /\ InWords = << <<"k", "'", "a">>, <<"y", "e">>, <<"k", "'", "a">>, <<"k", "a">> >>
    /\ OutWords = << <<"k", "&e">>, <<"a">>, <<"y", "e">>, <<"k", "o">>, <<"a">>, <<"k", "a">> >>

(***************************************************************************)
(* C11: in expand mode, when a k' + stem word is immediately followed by   *)
(* another k' + stem word, the first becomes ko if the second comes out as *)
(* ka and ka otherwise, through any chain of consecutive k' contractions;  *)
(* the morpheme the second word gets in the output is the one that was     *)
(* predicted for it.                                                       *)
(***************************************************************************)
C11_KChain ==
    ExpandDone =>
        \A i \in 1..Len(InWords) :
            (/\ ContractionMatch("k", InWords[i])
             /\ i + 1 <= Len(InWords)
             /\ ContractionMatch("k", InWords[i + 1]))
                => /\ OutMorpheme(i) = IF OutMorpheme(i + 1) = KA THEN KO ELSE KA
                   /\ OutStem(i) = MatchGroup(InWords[i])

C11_Witness ==
    /\ ExpandDone
    /\ InWords = << <<"k", "'", "a">>, <<"k", "'", "a">>, <<"k", "'", "a">>, <<"y", "e">> >>
    /\ OutWords = << <<"k", "o">>, <<"a">>, <<"k", "a">>, <<"a">>,
                     <<"k", "&e">>, <<"a">>, <<"y", "e">> >>

(***************************************************************************)
(* C12: when the word after a k' + stem contraction is itself an           *)
(* unambiguous contraction (b', t', y', m' or s' + stem), the k' is        *)
(* resolved as if that word were its expanded morpheme: by the ma rules    *)
(* for m', by the postposition and clause-marker sets for the others.      *)
(***************************************************************************)
AsIfNext(base, i) ==
    IF base = MA
    THEN IF i + 3 <= Len(InWords) /\ Fold(InWords[i + 3]) = YE THEN KE
         ELSE IF i + 2 <= Len(InWords) /\ Fold(InWords[i + 2]) \in REPORTED_SPEECH_MARKERS
         THEN KO
         ELSE KE
    ELSE BySets(base)

C12_LookaheadExpands ==
    ExpandDone =>
        \A i \in 1..Len(InWords) :
            (/\ ContractionMatch("k", InWords[i])
             /\ i + 1 <= Len(InWords)
             /\ IsUnambiguous(InWords[i + 1]))
                => OutMorpheme(i) = AsIfNext(BoundForm(LowerChar(InWords[i + 1][1])), i)

C12_Witness ==
    /\ ExpandDone
    /\ InWords = << <<"k", "'", "a", "l", "e">>, <<"t", "'", "a">>,
                    <<"k", "'", "a", "l", "e">>, <<"y", "'", "a">> >>
    /\ OutWords = << <<"k", "o">>, <<"a", "l", "e">>, <<"t", "&e">>, <<"a">>,
                     <<"k", "&e">>, <<"a", "l", "e">>, <<"y", "e">>, <<"a">> >>

(***************************************************************************)
(* C14: bambara_to_number raises, naming the offending substring, for      *)
(* every phrase holding a token that is no numeral vocabulary, before or   *)
(* after the decimal separator; no number comes back with such a token     *)
(* ignored.                                                                *)
(***************************************************************************)
UnknownTokens(phr) ==
    {t \in {SplitWS(Lower(phr))[i] : i \in DOMAIN SplitWS(Lower(phr))} : t \notin NUMBER_TOKENS}

C14_UnknownTokenRaises ==
    (pc = "parse_done" /\ UnknownTokens(phrase) # {})
        => /\ parsed.kind = "error"
           /\ \E t \in UnknownTokens(phrase) : Contains(parsed.msg, t)

(***************************************************************************)
(* C15: with the number-expansion toggle set (expand_numbers, or the WER   *)
(* preset), normalize turns every digit sequence of the input into its     *)
(* Bambara number words: the output holds the words and no digit.          *)
(***************************************************************************)
DigitWords(t) == {w \in {SplitWS(t)[i] : i \in DOMAIN SplitWS(t)} : \A j \in DOMAIN w : IsDigit(w[j])}

C15_DigitsExpanded ==
    (pc = "norm_done" /\ config.expand_numbers)
        => /\ \A j \in DOMAIN out : ~IsDigit(out[j])
           /\ \A w \in DigitWords(text) : Contains(out, number_to_bambara(IntNum(NatOfStr(w))))

(***************************************************************************)
(* C16: create_normalizer(preset, mode=m), and so the convenience          *)
(* normalize(text, mode=m), accepts the keyword mode for every preset: it  *)
(* does not raise, and the instance works in contraction mode m.           *)
(***************************************************************************)
ModeArgs == {request.kwargs[i][2] : i \in {j \in DOMAIN request.kwargs : request.kwargs[j][1] = "mode"}}

C16_ModeAccepted ==
    (pc # "create_start" /\ request.preset \in PRESETS)
        => \A m \in ModeArgs :
              /\ pc # "create_raised"
              /\ config.contraction_mode = m
              /\ pc = "norm_done"
                    => out = normalize([PresetConfig(request.preset) EXCEPT !.contraction_mode = m], text)

(***************************************************************************)
(* C19: a duration worded by duration_to_bambara is parsed back by         *)
(* bambara_to_duration to the same hours, minutes and seconds.             *)
(***************************************************************************)
C19_DurationRoundTrip ==
    pc = "dur_parsed"
        => /\ parsed.kind = "duration"
           /\ parsed.hours = num.hours
           /\ parsed.minutes = num.minutes
           /\ parsed.seconds = num.seconds

(***************************************************************************)
(* C20: when apostrophe canonicalization and expand mode are both on, the  *)
(* apostrophes are made canonical before the contraction pass: the pass    *)
(* leaves no other apostrophe variant, and a text whose contractions are   *)
(* written with any of the ten variants gives the output of the same text  *)
(* written with the ASCII apostrophe.                                      *)
(***************************************************************************)
AsciiWritten(t) == [i \in 1..Len(t) |-> IF t[i] \in APOSTROPHE_VARIANTS THEN APOSTROPHE ELSE t[i]]

C20_VariantsAsAscii ==
    (pc = "norm_done" /\ config.normalize_apostrophes /\ expand_contractions(config))
        => /\ \A i \in DOMAIN expanded : expanded[i] \in APOSTROPHE_VARIANTS => expanded[i] = APOSTROPHE
           /\ out = normalize(config, AsciiWritten(text))

C20_Witness ==
    /\ pc = "norm_done"
    /\ config = BambaraNormalizerConfig("expand")
    /\ text = <<"k", "u02BC", "a", " ", "k", "r'", "a">>
    /\ out = <<"k", "o", " ", "a", " ", "k", "a", " ", "a">>

(***************************************************************************)
(* C13: normalize is total: for every text, preset and mode it returns,    *)
(* it never raises.                                                        *)
(***************************************************************************)
C13_NormalizeTotal ==
    (pc = "deep_ready" /\ stack.fn = "normalize") => stack.result # "raised"

(***************************************************************************)
(* C18: after any sequence of calls made one after the other on an         *)
(* instance, its configuration is the one it was constructed with, and     *)
(* normalize returns what a freshly constructed instance returns.          *)
(***************************************************************************)
C18_ConfigRestored ==
    (pc = "deep_ready" /\ stack.made > 0)
        => /\ config = built
           /\ (stack.fn = "normalize" /\ stack.result = "returned")
                 => out = normalize(built, ChainText(stack.chain))

(***************************************************************************)
(* C17: calls on one instance share no mutable state: when a normalize     *)
(* and a normalize_for_comparison call interleave, each returns what it    *)
(* returns when it runs alone.                                             *)
(***************************************************************************)
Alone(call) ==
    normalize(IF call.fn = "normalize_for_comparison" THEN for_wer_evaluation("expand") ELSE built,
              call.arg)

C17_CallsIndependent ==
    pc = "threads"
        => \A t \in Threads : calls[t].at = "returned" => calls[t].ret = Alone(calls[t])

(***************************************************************************)
(* C21: for an integer 1 <= n < 1,000,000,000 the phrase of                *)
(* number_to_bambara(n) has the connective 'ni' between a tens, hundred,   *)
(* thousand or million group and its remainder exactly when that remainder *)
(* is not zero, at every level: the phrase has one 'ni' per non-zero       *)
(* remainder, does not start or end with 'ni', and has no two adjacent     *)
(* 'ni'.                                                                   *)
(***************************************************************************)
\* the number of non-zero remainders in the decomposition of n
RECURSIVE Remainders(_)
Remainders(n) ==
    IF n < 10 THEN 0
    ELSE IF n < 100 THEN IF n % 10 = 0 THEN 0 ELSE 1
    ELSE IF n < 1000 THEN IF n % 100 = 0 THEN 0 ELSE 1 + Remainders(n % 100)
    ELSE IF n < 1000000 THEN
        Remainders(n \div 1000) + (IF n % 1000 = 0 THEN 0 ELSE 1 + Remainders(n % 1000))
    ELSE
        Remainders(n \div 1000000)
            + (IF n % 1000000 = 0 THEN 0 ELSE 1 + Remainders(n % 1000000))

PhraseWords == SplitWS(phrase)
Connectives(words) == {i \in 1..Len(words) : words[i] = CONNECTOR}

C21_ConnectiveAtRemainders ==
    (pc = "num_worded" /\ num.kind = "int" /\ ~num.neg /\ num.ip >= 1) =>
        /\ PhraseWords # <<>>
        /\ Head(PhraseWords) # CONNECTOR
        /\ PhraseWords[Len(PhraseWords)] # CONNECTOR
        /\ \A i \in Connectives(PhraseWords) : (i + 1) \notin Connectives(PhraseWords)
        /\ Cardinality(Connectives(PhraseWords)) = Remainders(num.ip)

\* 12,250 is worded with a connective inside the thousands group and two after it
C21_Witness ==
    /\ pc = "num_worded"
    /\ num = IntNum(12250)
    /\ Cardinality(Connectives(PhraseWords)) = 3

(***************************************************************************)
(* C22: bambara_to_number resolves a magnitude word together with its      *)
(* whole multiplier sub-phrase, connectives inside it included: for every  *)
(* k in 1..999 the phrase 'waa ' + number_to_bambara(k) parses to 1000*k.  *)
(***************************************************************************)
C22_MultiplierSubPhrase ==
    pc = "waa_parsed" => (parsed.kind = "int" /\ parsed.ip = 1000 * num.ip)

(***************************************************************************)
(* C23: for every finite sequence of tokens the k' expansion terminates:   *)
(* each iteration of the scan moves the scan index on by exactly one,      *)
(* every recursive prediction is made on the index after its caller's, and *)
(* the depth of the recursion started for a token is at most the number of *)
(* tokens from that token to the end.                                      *)
(***************************************************************************)
ScanIndex == stack.i
ScanFrames == stack.frames
ScanTokens == Len(stack.words)

\* every call is on the index after its caller's, and the calls fit in the tokens
C23_DepthBound ==
    /\ \A k \in 1..Len(ScanFrames) : ScanFrames[k] = ScanIndex + k
    /\ ScanFrames # <<>> => Len(ScanFrames) <= ScanTokens - ScanIndex

\* the scan index never goes back and moves by one with every appended word
C23_IndexStep ==
    /\ stack'.i = stack.i + (Len(stack'.result) - Len(stack.result))
    /\ Len(stack'.result) - Len(stack.result) \in {0, 1}

C23_KExpansionTerminates ==
    /\ []C23_DepthBound
    /\ [][C23_IndexStep]_vars
    /\ <>(pc = "scan_done" /\ Len(stack.result) = Len(stack.words))

\* three calls of _predict_k_expansion are active for the first of four k' words
C23_Witness ==
    /\ pc = "scan_predict"
    /\ ScanIndex = 1
    /\ ScanTokens = 4
    /\ Len(ScanFrames) = 3

(***************************************************************************)
(* C24: for every negative number, integer or decimal (-0.5 included),     *)
(* number_to_bambara returns the word for negative followed by the phrase  *)
(* of the absolute value.                                                  *)
(***************************************************************************)
IsNegative(x) == x.neg /\ (x.ip > 0 \/ \E i \in 1..Len(x.frac) : x.frac[i] # 0)
AbsNum(x) == [x EXCEPT !.neg = FALSE]

C24_NegativePrefixed ==
    (pc = "num_worded" /\ IsNegative(num)) =>
        phrase = NEGATIVE \o <<SP>> \o number_to_bambara(AbsNum(num))

(***************************************************************************)
(* C25: after normalize in expand mode no token of the output is an        *)
(* unexpanded ambiguous contraction: k' or n' and a stem that starts with  *)
(* a vowel, the vowel with a tone mark or not, the token with punctuation  *)
(* in front of it or not.                                                  *)
(***************************************************************************)
\* the word without the characters in front of it that are no word characters
RECURSIVE DropLeading(_)
DropLeading(w) ==
    IF w = <<>> \/ IsWordChar(Head(w)) THEN w ELSE DropLeading(Tail(w))

LooksAmbiguous(w) ==
    LET core == DropLeading(w)
    IN  /\ Len(core) >= 3
        /\ LowerChar(core[1]) \in {"k", "n"}
        /\ core[2] = APOSTROPHE
        /\ \E v \in ContractionVowels : Fold(<<core[3]>>) = <<LowerChar(v)>>

C25_NoAmbiguousLeft ==
    ExpandDone => \A i \in 1..Len(SplitWS(out)) : ~LooksAmbiguous(SplitWS(out)[i])

(***************************************************************************)
(* C26: under every preset, each maximal run of digits of the input is in  *)
(* the output unchanged or replaced by number words: the digit runs of the *)
(* output are digit runs of the input, in the input's order, never another *)
(* digit string.                                                           *)
(***************************************************************************)
\* the length of the run of digits s starts with
RECURSIVE RunLen(_)
RunLen(s) == IF s = <<>> \/ ~IsDigit(Head(s)) THEN 0 ELSE 1 + RunLen(Tail(s))

\* the maximal runs of digits of s, in order
RECURSIVE DigitRuns(_)
DigitRuns(s) ==
    IF s = <<>> THEN <<>>
    ELSE IF RunLen(s) = 0 THEN DigitRuns(Tail(s))
    ELSE <<SubSeq(s, 1, RunLen(s))>> \o DigitRuns(SubSeq(s, RunLen(s) + 1, Len(s)))

\* a is b with some of its elements left out
RECURSIVE IsSubsequence(_, _)
IsSubsequence(a, b) ==
    IF a = <<>> THEN TRUE
    ELSE IF b = <<>> THEN FALSE
    ELSE IF Head(a) = Head(b) THEN IsSubsequence(Tail(a), Tail(b))
    ELSE IsSubsequence(a, Tail(b))

C26_DigitRunsKept ==
    pc = "norm_done" => IsSubsequence(DigitRuns(out), DigitRuns(text))

(***************************************************************************)
(* C27: normalize_numbers_in_text changes only the numerals: a word with   *)
(* no digit stays as it is, an integer is replaced by its words, and a     *)
(* period or comma directly after an integer is kept behind the words of   *)
(* the integer, which is converted as an integer and not read as a         *)
(* decimal.                                                                *)
(***************************************************************************)
IsNumeral(w) == w # <<>> /\ \A j \in DOMAIN w : IsDigit(w[j])
IsPlain(w) == \A j \in DOMAIN w : ~IsDigit(w[j])
Front(w) == SubSeq(w, 1, Len(w) - 1)
IsMarkedInteger(w) == Len(w) >= 2 /\ w[Len(w)] \in {DOT, COMMA} /\ IsNumeral(Front(w))

NumeralWords(w) ==
    IF IsNumeral(w) THEN number_to_bambara(IntNum(NatOfStr(w)))
    ELSE IF IsMarkedInteger(w) THEN number_to_bambara(IntNum(NatOfStr(Front(w)))) \o <<w[Len(w)]>>
    ELSE w

C27_OnlyNumeralsChange ==
    (/\ pc = "intext_done"
     /\ \A i \in DOMAIN SplitWS(text) :
            IsNumeral(SplitWS(text)[i]) \/ IsPlain(SplitWS(text)[i])
                \/ IsMarkedInteger(SplitWS(text)[i]))
        => out = Join([i \in DOMAIN SplitWS(text) |-> NumeralWords(SplitWS(text)[i])], <<SP>>)

(***************************************************************************)
(* C28: expanding a k' or n' contraction only replaces the prefix and the  *)
(* apostrophe by the morpheme and a space: every character after the       *)
(* apostrophe, the stem and what is attached to it (a suffix such as -la,  *)
(* a punctuation mark), is kept, in order; the other words are unchanged.  *)
(***************************************************************************)
IsPlainWord(w) == \A j \in DOMAIN w : w[j] # APOSTROPHE
AmbiguousMorphemes == {KA, KE, KO, NA, NI}

AfterApostrophe(w) == SubSeq(w, 3, Len(w))

\* the text with morpheme ms[i] and a space for the first two characters of
\* every k' or n' word i
WithMorphemes(ws, ms) ==
    Join([i \in DOMAIN ws |->
             IF IsAmbiguous(ws[i]) THEN ms[i] \o <<SP>> \o AfterApostrophe(ws[i]) ELSE ws[i]],
         <<SP>>)

C28_StemKept ==
    (ExpandDone /\ \A i \in DOMAIN InWords : IsAmbiguous(InWords[i]) \/ IsPlainWord(InWords[i]))
        => \E ms \in [DOMAIN InWords -> AmbiguousMorphemes] :
               expanded = WithMorphemes(InWords, ms)

(***************************************************************************)
(* C29: for every text and configuration the entry 'final' of              *)
(* get_normalization_diff(text) is the text normalize(text) returns.       *)
(***************************************************************************)
C29_DiffFinalIsNormalize == pc = "diff_done" => out2 = out

(***************************************************************************)
(* C30: every word number_to_bambara writes for 0 <= n < 1,000,000,000 is  *)
(* a word bambara_to_number knows; in particular the phrase of a whole     *)
(* number of millions k * 1,000,000 parses, without an error, to           *)
(* k * 1,000,000.                                                          *)
(***************************************************************************)
C30_SharedVocabulary ==
    /\ (pc = "num_worded" /\ num.kind = "int" /\ ~num.neg) =>
           \A i \in DOMAIN PhraseWords : PhraseWords[i] \in NUMBER_TOKENS
    /\ (pc = "num_parsed" /\ num.kind = "int" /\ ~num.neg
            /\ num.ip >= 1000000 /\ num.ip % 1000000 = 0) =>
           (parsed.kind = "int" /\ parsed.ip = num.ip)

====
